---- MODULE Spec2Model ----
(***************************************************************************)
(* SlicerPySERA: the configuration composer, the value coercion, the       *)
(* result normaliser and the widget glue of PySera.py, as state machines.  *)
(* The repository holds two copies of PySera.py (PySERA/ and PySera_Ext/); *)
(* `variant` says which copy a behaviour runs.                             *)
(*                                                                         *)
(* Python values are tagged records:                                       *)
(*   None   [t |-> "none"]             bool  [t |-> "bool", b]             *)
(*   int    [t |-> "int", i]           float [t |-> "float", kind,neg,n,k] *)
(*   str    [t |-> "str", s]           list  [t |-> "list", l]             *)
(*   dict   [t |-> "dict", d]  (d: the items, in insertion order)          *)
(* A finite float is (-1)^neg * n * 10^k with n not divisible by 10.       *)
(* A raised exception is the value [t |-> "raise", exc].                   *)
(***************************************************************************)
EXTENDS Integers, Sequences, FiniteSets, TLC

VARIABLES
    variant,        \* "PySERA" or "PySera_Ext": which copy of PySera.py runs
    nArg,           \* _normalize: the value passed in
    nRet1,          \* _normalize(nArg)
    nRet2,          \* _normalize(_normalize(nArg))
    nPc,            \* "input" -> "coerced" -> "recoerced"
    CFG_FILE,       \* the parameters file as loaded at import (a dict)
    params_from_ui, \* _compose_cfg: the UI overrides passed in
    cfg,            \* the merged configuration mapping
    cli,            \* the keyword arguments _build_cli_kwargs returned
    cPc,            \* "loaded" -> "composed" -> "built"
    result,         \* what the external batch call returned
    rows,           \* feature_rows_from_result(result)
    rPc,            \* "returned" -> "normalized"
    statusLabel,    \* the widget's status line: text and colour
    featureTable,   \* the cells of the feature table, row by row
    summaryTable,   \* the cells of the summary table, row by row
    _csvPollRemaining, \* the widget's retry budget of the CSV poll
    timers,         \* the polls whose single-shot timer of _tick has not yet fired
    calls,          \* how many times the external batch call was invoked
    ticks,          \* how many times the _tick of each poll has run
    overlapped,     \* the polls that were in flight together with another poll
    lastTick,       \* what the reader call did in the _tick that has just run
    lastRun,        \* the input, the import and the effects of the onCompute that has just run
    loggerLevel,    \* the level of the module's logger and of its handlers
    fArg,           \* _filter_meta: the pairs passed in
    fRet,           \* _filter_meta(fArg)
    fPc,            \* "called" -> "filtered"
    wObs,           \* _wait_for_readable_file: what each attempt finds at the path
    wRet,           \* how _wait_for_readable_file ended
    wPc,            \* "waiting" -> "ended"
    csvText,        \* the text of the output file
    csvOk,          \* how _wait_for_readable_file ends for the reader
    lRet,           \* what load_features_as_feature_value_rows returns or raises
    lPc,            \* "written" -> "loaded"
    dimensionChecks, \* the dimension checkboxes, in panel order: checked or not
    categoryChecks, \* the category checkboxes, in panel order: checked or not
    _ignoreDimSync, \* the widget's guard flag of the dimension handler
    handled,        \* whether _on_dimension_changed got past its guard in the last step
    toggles,        \* how many category boxes the user has clicked
    selection,      \* the categories and dimensions strings onCompute has just built
    pPc             \* "built", then the handler of the panel that ran last

normVars == <<nArg, nRet1, nRet2, nPc>>
cfgVars == <<CFG_FILE, params_from_ui, cfg, cli, cPc>>
rowVars == <<result, rows, rPc>>
widgetVars ==
    <<statusLabel, featureTable, summaryTable, _csvPollRemaining, timers, calls,
      ticks, overlapped, lastTick, lastRun, loggerLevel>>
filterVars == <<fArg, fRet, fPc>>
waitVars == <<wObs, wRet, wPc>>
csvVars == <<csvText, csvOk, lRet, lPc>>
panelVars ==
    <<dimensionChecks, categoryChecks, _ignoreDimSync, handled, toggles, selection, pPc>>
vars ==
    <<variant, normVars, cfgVars, rowVars, widgetVars, filterVars, waitVars, csvVars,
      panelVars>>

Variants == {"PySERA", "PySera_Ext"}

Idle == [t |-> "idle"]

\* the variables of the parts a specification leaves alone
NormalizeIdle == nArg = Idle /\ nRet1 = Idle /\ nRet2 = Idle /\ nPc = "idle"
ConfigIdle ==
    CFG_FILE = [t |-> "dict", d |-> <<>>] /\ params_from_ui = Idle /\ cfg = Idle
    /\ cli = Idle /\ cPc = "idle"
RowsIdle == result = Idle /\ rows = <<>> /\ rPc = "idle"
WidgetIdle ==
    statusLabel = Idle /\ featureTable = <<>> /\ summaryTable = <<>>
    /\ _csvPollRemaining = 0 /\ timers = {} /\ calls = 0
    /\ ticks = <<>> /\ overlapped = {} /\ lastTick = Idle
    /\ lastRun = Idle /\ loggerLevel = 0
FilterIdle == fArg = <<>> /\ fRet = <<>> /\ fPc = "idle"
WaitIdle == wObs = <<>> /\ wRet = Idle /\ wPc = "idle"
CsvIdle == csvText = "" /\ csvOk = Idle /\ lRet = Idle /\ lPc = "idle"
PanelIdle ==
    dimensionChecks = <<>> /\ categoryChecks = <<>> /\ _ignoreDimSync = FALSE
    /\ handled = FALSE /\ toggles = 0 /\ selection = Idle /\ pPc = "idle"

-----------------------------------------------------------------------------
(* Bounds of the model.                                                    *)

\* longest string of the exhaustively enumerated _normalize inputs
MaxStrLen == 3
\* int inputs of _normalize range over -MaxInt..MaxInt
MaxInt == 2
\* settings held by the three configuration layers together
MaxEntries == 2

-----------------------------------------------------------------------------
(* Python values.                                                          *)

PyNone == [t |-> "none"]
PyBool(b) == [t |-> "bool", b |-> b]
PyInt(i) == [t |-> "int", i |-> i]
PyStr(s) == [t |-> "str", s |-> s]
PyList(l) == [t |-> "list", l |-> l]
PyDict(d) == [t |-> "dict", d |-> d]
PyTuple(l) == [t |-> "tuple", l |-> l]
\* an object of some other class, known by its str()
PyObject(text) == [t |-> "obj", text |-> text]
\* a DataFrame-like object: column labels, rows of cells aligned with them, its str()
PyTable(hasShape, columns, cells, text) ==
    [t |-> "table", hasShape |-> hasShape, columns |-> columns, rows |-> cells, text |-> text]
PyFloat(neg, n, k) == [t |-> "float", kind |-> "fin", neg |-> neg, n |-> n, k |-> k]
PyInf(neg) == [t |-> "float", kind |-> "inf", neg |-> neg, n |-> 0, k |-> 0]
PyNaN == [t |-> "float", kind |-> "nan", neg |-> FALSE, n |-> 0, k |-> 0]

ValueError == [t |-> "raise", exc |-> "ValueError"]
IsRaise(x) == x.t = "raise"

-----------------------------------------------------------------------------
(* Python's str methods, on TLA+ strings.                                  *)

Ch(s, i) == SubSeq(s, i, i)

Contains(s, c) == \E i \in 1..Len(s) : Ch(s, i) = c

FirstIndex(s, c) ==
    CHOOSE i \in 1..Len(s) : Ch(s, i) = c /\ \A j \in 1..(i - 1) : Ch(s, j) # c

Whitespace == {" ", "\t"}

UpperChars == "ABCDEFGHIJKLMNOPQRSTUVWXYZ"
LowerChars == "abcdefghijklmnopqrstuvwxyz"

LowerCh(c) ==
    IF Contains(UpperChars, c) THEN Ch(LowerChars, FirstIndex(UpperChars, c)) ELSE c

RECURSIVE lower(_)
lower(s) == IF s = "" THEN "" ELSE LowerCh(Head(s)) \o lower(Tail(s))

RECURSIVE lstrip(_)
lstrip(s) == IF s # "" /\ Head(s) \in Whitespace THEN lstrip(Tail(s)) ELSE s

RECURSIVE rstrip(_)
rstrip(s) ==
    IF s # "" /\ Ch(s, Len(s)) \in Whitespace
    THEN rstrip(SubSeq(s, 1, Len(s) - 1))
    ELSE s

strip(s) == rstrip(lstrip(s))

\* s.split(sep) for a one-character separator: the parts, in order
RECURSIVE split(_, _)
split(s, sep) ==
    IF ~Contains(s, sep)
    THEN <<s>>
    ELSE LET i == FirstIndex(s, sep)
         IN  <<SubSeq(s, 1, i - 1)>> \o split(SubSeq(s, i + 1, Len(s)), sep)

Digits == {"0", "1", "2", "3", "4", "5", "6", "7", "8", "9"}
DigitVal(c) == FirstIndex("0123456789", c) - 1

isdigit(s) == s # "" /\ \A i \in 1..Len(s) : Ch(s, i) \in Digits

-----------------------------------------------------------------------------
(* int(s) and float(s) of Python 3 on ASCII text.                          *)

StripSign(s) == IF s # "" /\ Head(s) \in {"+", "-"} THEN Tail(s) ELSE s

\* digit ("_"? digit)*
IsDigitPart(s) ==
    /\ s # ""
    /\ \A i \in 1..Len(s) : Ch(s, i) \in Digits \cup {"_"}
    /\ Head(s) \in Digits
    /\ Ch(s, Len(s)) \in Digits
    /\ \A i \in 1..(Len(s) - 1) : ~(Ch(s, i) = "_" /\ Ch(s, i + 1) = "_")

RECURSIVE DigitsOnly(_)
DigitsOnly(s) ==
    IF s = "" THEN ""
    ELSE (IF Head(s) = "_" THEN "" ELSE Head(s)) \o DigitsOnly(Tail(s))

RECURSIVE DigitsValue(_)
DigitsValue(s) ==
    IF s = "" THEN 0
    ELSE 10 * DigitsValue(SubSeq(s, 1, Len(s) - 1)) + DigitVal(Ch(s, Len(s)))

IsNegative(s) == s # "" /\ Head(s) = "-"

IsPyInt(s) == IsDigitPart(StripSign(strip(s)))

IntVal(s) ==
    LET u == strip(s)
        m == DigitsValue(DigitsOnly(StripSign(u)))
    IN  IF IsNegative(u) THEN 0 - m ELSE m

\* [intpart] ["." [fracpart]], at least one digit
IsMantissa(m) ==
    IF Contains(m, ".")
    THEN LET p  == FirstIndex(m, ".")
             ip == SubSeq(m, 1, p - 1)
             fp == SubSeq(m, p + 1, Len(m))
         IN  /\ ip = "" \/ IsDigitPart(ip)
             /\ fp = "" \/ IsDigitPart(fp)
             /\ ~(ip = "" /\ fp = "")
    ELSE IsDigitPart(m)

MantissaOf(lo) == IF Contains(lo, "e") THEN SubSeq(lo, 1, FirstIndex(lo, "e") - 1) ELSE lo
ExponentOf(lo) == IF Contains(lo, "e") THEN SubSeq(lo, FirstIndex(lo, "e") + 1, Len(lo)) ELSE "0"

IsDecimal(lo) == IsMantissa(MantissaOf(lo)) /\ IsDigitPart(StripSign(ExponentOf(lo)))

IsPyFloat(s) ==
    LET lo == lower(StripSign(strip(s)))
    IN  lo \in {"inf", "infinity", "nan"} \/ IsDecimal(lo)

RECURSIVE NumDigits(_)
NumDigits(n) == IF n < 10 THEN 1 ELSE 1 + NumDigits(n \div 10)

\* the first nine significant digits of n
Lead9(n) == IF NumDigits(n) > 9 THEN n \div 10 ELSE n * 10 ^ (9 - NumDigits(n))

\* The double nearest to n * 10^k. Beyond the largest double (1.79769313...e308) it is
\* inf, below the smallest subnormal it is 0.0; in between the decimal digits are
\* kept, which repr() gives back for up to 15 significant digits of a normal double.
RECURSIVE Canon(_, _, _)
Canon(neg, n, k) ==
    IF n = 0 THEN PyFloat(neg, 0, 0)
    ELSE IF n % 10 = 0 THEN Canon(neg, n \div 10, k + 1)
    ELSE IF NumDigits(n) - 1 + k > 308 THEN PyInf(neg)
    ELSE IF NumDigits(n) - 1 + k = 308 /\ Lead9(n) > 179769313 THEN PyInf(neg)
    ELSE IF NumDigits(n) - 1 + k < 0 - 324 THEN PyFloat(neg, 0, 0)
    ELSE PyFloat(neg, n, k)

FloatVal(s) ==
    LET u    == strip(s)
        neg  == IsNegative(u)
        lo   == lower(StripSign(u))
        m    == MantissaOf(lo)
        p    == IF Contains(m, ".") THEN FirstIndex(m, ".") ELSE Len(m) + 1
        ip   == DigitsOnly(SubSeq(m, 1, p - 1))
        fp   == DigitsOnly(SubSeq(m, p + 1, Len(m)))
        ex   == ExponentOf(lo)
        e    == DigitsValue(DigitsOnly(StripSign(ex)))
    IN  IF lo = "nan" THEN PyNaN
        ELSE IF lo \in {"inf", "infinity"} THEN PyInf(neg)
        ELSE Canon(neg, DigitsValue(ip \o fp),
                   (IF IsNegative(ex) THEN 0 - e ELSE e) - Len(fp))

\* int(s): the value, or ValueError
int(s) == IF IsPyInt(s) THEN PyInt(IntVal(s)) ELSE ValueError

\* float(s): the value, or ValueError
float(s) == IF IsPyFloat(s) THEN FloatVal(s) ELSE ValueError

-----------------------------------------------------------------------------
(* str(v) and repr(v).                                                     *)

RECURSIVE NatToStr(_)
NatToStr(n) ==
    IF n < 10 THEN Ch("0123456789", n + 1)
    ELSE NatToStr(n \div 10) \o Ch("0123456789", (n % 10) + 1)

IntToStr(i) == IF i < 0 THEN "-" \o NatToStr(0 - i) ELSE NatToStr(i)

RECURSIVE Zeros(_)
Zeros(n) == IF n <= 0 THEN "" ELSE "0" \o Zeros(n - 1)

\* repr of a float: the shortest digits, fixed notation for 1e-4 <= |x| < 1e16
FloatRepr(f) ==
    LET sign == IF f.neg THEN "-" ELSE ""
        D    == NatToStr(f.n)
        d    == Len(D)
        e10  == d - 1 + f.k
        ae   == IF e10 < 0 THEN 0 - e10 ELSE e10
    IN  IF f.kind = "nan" THEN "nan"
        ELSE IF f.kind = "inf" THEN sign \o "inf"
        ELSE IF f.n = 0 THEN sign \o "0.0"
        ELSE IF e10 >= 0 - 4 /\ e10 < 16
             THEN IF f.k >= 0 THEN sign \o D \o Zeros(f.k) \o ".0"
                  ELSE IF d + f.k > 0
                       THEN sign \o SubSeq(D, 1, d + f.k) \o "." \o SubSeq(D, d + f.k + 1, d)
                       ELSE sign \o "0." \o Zeros(0 - (d + f.k)) \o D
             ELSE sign \o Ch(D, 1) \o (IF d > 1 THEN "." \o SubSeq(D, 2, d) ELSE "")
                       \o "e" \o (IF e10 < 0 THEN "-" ELSE "+")
                       \o (IF ae < 10 THEN "0" ELSE "") \o NatToStr(ae)

RECURSIVE Str(_)
RECURSIVE repr(_)
RECURSIVE JoinRepr(_)

\* ", ".join(repr(e) for e in l)
JoinRepr(l) ==
    IF Len(l) = 0 THEN ""
    ELSE IF Len(l) = 1 THEN repr(l[1])
    ELSE repr(l[1]) \o ", " \o JoinRepr(Tail(l))

RECURSIVE JoinItems(_)

\* ", ".join(repr(k) + ": " + repr(v) for k, v in d.items())
JoinItems(d) ==
    IF Len(d) = 0 THEN ""
    ELSE repr(d[1][1]) \o ": " \o repr(d[1][2])
         \o (IF Len(d) = 1 THEN "" ELSE ", " \o JoinItems(Tail(d)))

Str(v) ==
    CASE v.t = "none"  -> "None"
      [] v.t = "bool"  -> IF v.b THEN "True" ELSE "False"
      [] v.t = "int"   -> IntToStr(v.i)
      [] v.t = "float" -> FloatRepr(v)
      [] v.t = "str"   -> v.s
      [] v.t = "list"  -> "[" \o JoinRepr(v.l) \o "]"
      [] v.t = "tuple" -> "(" \o JoinRepr(v.l) \o (IF Len(v.l) = 1 THEN "," ELSE "") \o ")"
      [] v.t = "dict"  -> "{" \o JoinItems(v.d) \o "}"
      [] v.t \in {"obj", "table"} -> v.text

repr(v) == IF v.t = "str" THEN "'" \o v.s \o "'" ELSE Str(v)

-----------------------------------------------------------------------------
(* PySERALogic._normalize                                                  *)

\* TryExcept without its except clause: the exception propagates
TryExcept_Propagates(r, handler) == r

\* try: r  except Exception: handler
TryExcept(r, handler) == IF IsRaise(r) THEN handler ELSE r

\* one pass of the loop over s.split(",")
NormalizePart(p) ==
    LET part == strip(p)
    IN  IF lower(part) = "none" THEN PyNone
        ELSE TryExcept(IF isdigit(part) THEN int(part) ELSE float(part), PyStr(part))

_normalize(v) ==
    IF v.t = "none" THEN PyNone
    ELSE IF v.t = "bool" THEN PyInt(IF v.b THEN 1 ELSE 0)
    ELSE IF v.t \in {"int", "float"} THEN v
    ELSE LET s  == strip(Str(v))
             lo == lower(s)
         IN  IF s = "" THEN PyStr("")
             ELSE IF lo = "none" THEN PyNone
             ELSE IF lo = "auto" THEN PyStr("auto")
             ELSE IF Contains(s, ",")
                  THEN LET parts == split(s, ",")
                       IN  PyList([i \in 1..Len(parts) |-> NormalizePart(parts[i])])
                  ELSE TryExcept(IF Contains(s, ".") \/ Contains(lo, "e")
                                 THEN float(s) ELSE int(s),
                                 PyStr(s))

-----------------------------------------------------------------------------
(* Python dicts: the items <<key, value>> in insertion order.              *)

EmptyDict == PyDict(<<>>)

KeySet(m) == {m.d[i][1] : i \in 1..Len(m.d)}

HasKey(m, k) == k \in KeySet(m)

\* m[k]
Lookup(m, k) == m.d[CHOOSE i \in 1..Len(m.d) : m.d[i][1] = k][2]

\* m.get(k, default)
DictGet(m, k, default) == IF HasKey(m, k) THEN Lookup(m, k) ELSE default

\* m[k] = v
DictSet(m, k, v) ==
    IF HasKey(m, k)
    THEN PyDict([i \in 1..Len(m.d) |-> IF m.d[i][1] = k THEN <<k, v>> ELSE m.d[i]])
    ELSE PyDict(Append(m.d, <<k, v>>))

\* m.update(items)
RECURSIVE DictUpdate(_, _)
DictUpdate(m, items) ==
    IF Len(items) = 0 THEN m
    ELSE DictUpdate(DictSet(m, items[1][1], items[1][2]), Tail(items))

\* the truth value of v, as `v or {}` tests it
Falsy(v) ==
    \/ v.t = "none"
    \/ v.t = "bool" /\ ~v.b
    \/ v.t = "int" /\ v.i = 0
    \/ v.t = "float" /\ v.kind = "fin" /\ v.n = 0
    \/ v.t = "str" /\ v.s = ""
    \/ v.t = "list" /\ Len(v.l) = 0
    \/ v.t = "dict" /\ Len(v.d) = 0

OrEmpty(v) == IF Falsy(v) THEN EmptyDict ELSE v

startswith(s, prefix) == Len(s) >= Len(prefix) /\ SubSeq(s, 1, Len(prefix)) = prefix

-----------------------------------------------------------------------------
(* The module globals RDEF and CLI_MAP, PySERALogic._compose_cfg and        *)
(* PySERALogic._build_cli_kwargs.                                          *)

RDEF == OrEmpty(DictGet(CFG_FILE, PyStr("radiomics"), PyNone))

CLI_MAP == OrEmpty(DictGet(CFG_FILE, PyStr("cli_key_map"), PyNone))

\* for k, v in RDEF.items(): cfg["radiomics_" + k] = v
RECURSIVE NamespacedDefaults(_, _)
NamespacedDefaults(c, items) ==
    IF Len(items) = 0 THEN c
    ELSE NamespacedDefaults(DictSet(c, PyStr("radiomics_" \o items[1][1].s), items[1][2]),
                            Tail(items))

\* PySera_Ext only: the explicit I/O defaults
ExplicitIODefaults(c, vr) ==
    IF vr = "PySera_Ext"
    THEN LET c1 == IF HasKey(RDEF, PyStr("destination_folder"))
                   THEN DictSet(c, PyStr("radiomics_destination_folder"),
                                Lookup(RDEF, PyStr("destination_folder")))
                   ELSE c
         IN  IF HasKey(RDEF, PyStr("temporary_files_path"))
             THEN DictSet(c1, PyStr("radiomics_temporary_files_path"),
                          Lookup(RDEF, PyStr("temporary_files_path")))
             ELSE c1
    ELSE c

\* for k, v in CFG_FILE.items(): if isinstance(k, str) and k.startswith("radiomics_")
RECURSIVE RawOverrides(_, _)
RawOverrides(c, items) ==
    IF Len(items) = 0 THEN c
    ELSE LET k == items[1][1]
         IN  RawOverrides(IF k.t = "str" /\ startswith(k.s, "radiomics_")
                          THEN DictSet(c, k, items[1][2]) ELSE c,
                          Tail(items))

\* _compose_cfg with the layers applied in the wrong order: the file wins over the UI
_compose_cfg_FileWins(ui, vr) ==
    RawOverrides(ExplicitIODefaults(NamespacedDefaults(OrEmpty(ui), RDEF.d), vr), CFG_FILE.d)

\* _compose_cfg that takes from the UI only the keys the merged mapping already has
_compose_cfg_KnownOnly(ui, vr) ==
    LET c == RawOverrides(ExplicitIODefaults(NamespacedDefaults(EmptyDict, RDEF.d), vr),
                          OrEmpty(CFG_FILE).d)
    IN  DictUpdate(c, SelectSeq(OrEmpty(ui).d, LAMBDA it : HasKey(c, it[1])))

_compose_cfg(ui, vr) ==
    DictUpdate(RawOverrides(ExplicitIODefaults(NamespacedDefaults(EmptyDict, RDEF.d), vr),
                            OrEmpty(CFG_FILE).d),
               OrEmpty(ui).d)

passthru_str(vr) ==
    {"categories", "dimensions", "extraction_mode", "deep_learning_model", "report"}
        \cup (IF vr = "PySera_Ext" THEN {"optional_params"} ELSE {})

\* for src_key, dst_key in CLI_MAP.items(): ...
RECURSIVE TranslateLoop(_, _, _, _)
TranslateLoop(items, c, out, vr) ==
    IF Len(items) = 0 THEN out
    ELSE LET src  == items[1][1]
             dst  == items[1][2]
             rest == Tail(items)
         IN  IF ~HasKey(c, src) THEN TranslateLoop(rest, c, out, vr)
             ELSE LET raw == Lookup(c, src)
                  IN  IF raw = PyNone \/ raw = PyStr("") THEN TranslateLoop(rest, c, out, vr)
                      ELSE IF dst.s \in passthru_str(vr)
                           THEN TranslateLoop(rest, c, DictSet(out, dst, PyStr(Str(raw))), vr)
                           ELSE LET val == _normalize(raw)
                                IN  IF val # PyNone /\ val # PyStr("")
                                    THEN TranslateLoop(rest, c, DictSet(out, dst, val), vr)
                                    ELSE TranslateLoop(rest, c, out, vr)

\* the extraction mode set only when the translation left none
ForceExtractionMode_SetDefault(c, out) ==
    IF HasKey(out, PyStr("extraction_mode")) THEN out
    ELSE DictSet(out, PyStr("extraction_mode"),
                 PyStr(Str(DictGet(c, PyStr("radiomics_extraction_mode"),
                                   PyStr("handcrafted_feature")))))

\* cli["extraction_mode"] = str(cfg.get("radiomics_extraction_mode", "handcrafted_feature"))
ForceExtractionMode(c, out) ==
    DictSet(out, PyStr("extraction_mode"),
            PyStr(Str(DictGet(c, PyStr("radiomics_extraction_mode"),
                              PyStr("handcrafted_feature")))))

\* the model name passed on whenever it is not None
SetModel_AnyText(c, out) ==
    LET model == DictGet(c, PyStr("radiomics_deep_learning_model"), PyNone)
    IN  IF model # PyNone THEN DictSet(out, PyStr("deep_learning_model"), PyStr(Str(model)))
        ELSE out

\* model = cfg.get("radiomics_deep_learning_model", None); if model is not None and ...
SetModel(c, out) ==
    LET model == DictGet(c, PyStr("radiomics_deep_learning_model"), PyNone)
    IN  IF model # PyNone /\ lower(strip(Str(model))) \notin {"", "none"}
        THEN DictSet(out, PyStr("deep_learning_model"), PyStr(Str(model)))
        ELSE out

\* PySera_Ext only: opt = cfg.get("radiomics_optional_params", None); ...
SetOptionalParams(c, out, vr) ==
    LET opt == DictGet(c, PyStr("radiomics_optional_params"), PyNone)
    IN  IF vr = "PySera_Ext" /\ opt # PyNone /\ strip(Str(opt)) # ""
        THEN DictSet(out, PyStr("optional_params"), PyStr(Str(opt)))
        ELSE out

\* rep = cfg.get("radiomics_report", None); if rep is not None and str(rep).strip() != ""
SetReport(c, out) ==
    LET rep == DictGet(c, PyStr("radiomics_report"), PyNone)
    IN  IF rep # PyNone /\ strip(Str(rep)) # ""
        THEN DictSet(out, PyStr("report"), PyStr(Str(rep)))
        ELSE out

_build_cli_kwargs(c, vr) ==
    SetReport(c,
      SetOptionalParams(c,
        SetModel(c,
          ForceExtractionMode(c, TranslateLoop(CLI_MAP.d, c, EmptyDict, vr))),
        vr))

-----------------------------------------------------------------------------
(* Ordering of str and of list.sort().                                     *)

\* the characters of the model's strings, in code-point order
AsciiChars ==
    " '+,-.0123456789:ABCDEFGHIJKLMNOPQRSTUVWXYZ[]_abcdefghijklmnopqrstuvwxyz{}"

Ord(c) == FirstIndex(AsciiChars, c)

\* a < b for str
RECURSIVE StrLess(_, _)
StrLess(a, b) ==
    IF b = "" THEN FALSE
    ELSE IF a = "" THEN TRUE
    ELSE IF Head(a) = Head(b) THEN StrLess(Tail(a), Tail(b))
    ELSE Ord(Head(a)) < Ord(Head(b))

\* a < b for two keys of one type
KeyLess(a, b) == IF a.t = "str" THEN StrLess(a.s, b.s) ELSE a.i < b.i

\* the keys can be compared with one another: all str, or all int
Comparable(keys) ==
    \/ \A i \in 1..Len(keys) : keys[i].t = "str"
    \/ \A i \in 1..Len(keys) : keys[i].t = "int"

RECURSIVE InsertSorted(_, _)
InsertSorted(sorted, k) ==
    IF Len(sorted) = 0 THEN <<k>>
    ELSE IF KeyLess(k, Head(sorted)) THEN <<k>> \o sorted
    ELSE <<Head(sorted)>> \o InsertSorted(Tail(sorted), k)

RECURSIVE SortKeys(_)
SortKeys(keys) ==
    IF Len(keys) = 0 THEN <<>>
    ELSE InsertSorted(SortKeys(SubSeq(keys, 1, Len(keys) - 1)), keys[Len(keys)])

\* keys.sort() that leaves the keys as they are
SortOutcomes_Unsorted(keys) == {keys}

\* try: keys.sort()  except Exception: pass
\* A sort that raises TypeError (keys of mixed types) leaves the list in an order
\* the interpreter does not specify: any permutation of it.
SortOutcomes(keys) ==
    IF Comparable(keys) THEN {SortKeys(keys)}
    ELSE {[i \in 1..Len(keys) |-> keys[p[i]]] : p \in Permutations(1..Len(keys))}

-----------------------------------------------------------------------------
(* json.loads on the JSON texts of the model: null, true, false, integers, *)
(* strings without quote, backslash, comma or colon inside, and arrays and *)
(* objects of these. Any other text raises JSONDecodeError.                *)

JSONDecodeError == [t |-> "raise", exc |-> "JSONDecodeError"]

IsJsonInt(s) ==
    LET b == IF IsNegative(s) THEN Tail(s) ELSE s
    IN  isdigit(b) /\ (Len(b) = 1 \/ Head(b) # "0")

IsJsonString(s) ==
    /\ Len(s) >= 2
    /\ Head(s) = "\"" /\ Ch(s, Len(s)) = "\""
    /\ \A i \in 2..(Len(s) - 1) : Ch(s, i) \notin {"\"", "\\", ",", ":"}

JsonScalar(text) ==
    LET s == strip(text)
    IN  IF s = "null" THEN PyNone
        ELSE IF s = "true" THEN PyBool(TRUE)
        ELSE IF s = "false" THEN PyBool(FALSE)
        ELSE IF IsJsonInt(s) THEN PyInt(IntVal(s))
        ELSE IF IsJsonString(s) THEN PyStr(SubSeq(s, 2, Len(s) - 1))
        ELSE JSONDecodeError

\* the members "key": value of an object, added in order; a repeated key keeps its
\* place and takes the last value
RECURSIVE JsonMembers(_, _)
JsonMembers(parts, acc) ==
    IF Len(parts) = 0 THEN acc
    ELSE IF ~Contains(parts[1], ":") THEN JSONDecodeError
    ELSE LET c == FirstIndex(parts[1], ":")
             k == JsonScalar(SubSeq(parts[1], 1, c - 1))
             v == JsonScalar(SubSeq(parts[1], c + 1, Len(parts[1])))
         IN  IF k.t # "str" \/ IsRaise(v) THEN JSONDecodeError
             ELSE JsonMembers(Tail(parts), DictSet(acc, k, v))

JsonLoads(text) ==
    LET s     == strip(text)
        inner == strip(SubSeq(s, 2, Len(s) - 1))
    IN  IF Len(s) >= 2 /\ Head(s) = "{" /\ Ch(s, Len(s)) = "}"
        THEN IF inner = "" THEN EmptyDict ELSE JsonMembers(split(inner, ","), EmptyDict)
        ELSE IF Len(s) >= 2 /\ Head(s) = "[" /\ Ch(s, Len(s)) = "]"
        THEN IF inner = "" THEN PyList(<<>>)
             ELSE LET parts == split(inner, ",")
                      elems == [i \in 1..Len(parts) |-> JsonScalar(parts[i])]
                  IN  IF \E i \in 1..Len(parts) : IsRaise(elems[i]) THEN JSONDecodeError
                      ELSE PyList(elems)
        ELSE JsonScalar(s)

-----------------------------------------------------------------------------
(* PySERALogic.feature_rows_from_result. A row is <<name, value>>, the     *)
(* name a str.                                                             *)

drop == {"patientid", "roi", "case", "subject", "image", "mask"}

\* _filter_meta that keeps every pair
_filter_meta_KeepsAll(pairs) == pairs

_filter_meta(pairs) ==
    SelectSeq(pairs, LAMBDA p : lower(strip(p[1])) \notin drop)

\* the PySERA copy filters the rows it returns, the PySera_Ext copy does not
Filtered(pairs, vr) == IF vr = "PySERA" THEN _filter_meta(pairs) ELSE pairs

IsSequence(x) == x.t \in {"list", "tuple"}

\* the duck-typing test of the DataFrame branch
IsTableLike(fx, vr) == fx.t = "table" /\ (vr = "PySera_Ext" => fx.hasShape)

\* row_dict of a table: the first record; without rows, to_dict() maps every column
\* to an empty dict
TableRowDict(fx) ==
    PyDict([i \in 1..Len(fx.columns) |->
              <<fx.columns[i], IF Len(fx.rows) > 0 THEN fx.rows[1][i] ELSE EmptyDict>>])

TableRows(fx) ==
    LET rd == TableRowDict(fx)
    IN  [i \in 1..Len(fx.columns) |-> <<Str(fx.columns[i]), Lookup(rd, fx.columns[i])>>]

\* [(str(k), m[k]) for k in keys]
KeyedRows(m, keys) == [i \in 1..Len(keys) |-> <<Str(keys[i]), Lookup(m, keys[i])>>]

KeysOf(m) == [i \in 1..Len(m.d) |-> m.d[i][1]]

\* the 2xN test
IsTwoByN(fx) ==
    /\ Len(fx.l) = 2
    /\ IsSequence(fx.l[1])
    /\ IsSequence(fx.l[2])
    /\ Len(fx.l[1].l) = Len(fx.l[2].l)
    /\ Len(fx.l[1].l) > 0

Transposed(fx) ==
    [i \in 1..Len(fx.l[1].l) |-> <<Str(fx.l[1].l[i]), fx.l[2].l[i]>>]

\* the rows of one item, with only exact pairs taken as (name, value)
ItemRows_ExactPairs(item) ==
    IF IsSequence(item) /\ Len(item.l) = 2 THEN << <<Str(item.l[1]), item.l[2]>> >>
    ELSE <<>>

\* the rows one item of a general list contributes
ItemRows(item) ==
    IF IsSequence(item) /\ Len(item.l) >= 2 THEN << <<Str(item.l[1]), item.l[2]>> >>
    ELSE IF item.t = "dict"
         THEN IF HasKey(item, PyStr("feature")) /\ HasKey(item, PyStr("value"))
              THEN << <<Str(Lookup(item, PyStr("feature"))), Lookup(item, PyStr("value"))>> >>
              ELSE KeyedRows(item, KeysOf(item))
    ELSE <<>>

RECURSIVE ListRows(_)
ListRows(items) ==
    IF Len(items) = 0 THEN <<>> ELSE ItemRows(Head(items)) \o ListRows(Tail(items))

\* the 2xN test left out: every list is read item by item
SequenceRows_NoTranspose(fx) == ListRows(fx.l)

\* the rows of a list payload
SequenceRows(fx) == IF IsTwoByN(fx) THEN Transposed(fx) ELSE ListRows(fx.l)

\* a None payload taken for a payload like any other
NoPayload_Never(fx) == FALSE

\* if fx is None
NoPayload(fx) == fx = PyNone

\* a payload of no expected shape that gives no row at all
WrapAsRow_Nothing(v) == <<>>

\* [["features_extracted", v]]
WrapAsRow(v) == << <<"features_extracted", v>> >>

\* the row lists feature_rows_from_result can return for the result `res`
feature_rows_from_result(res, vr) ==
    IF res.t # "dict" THEN {<<>>}
    ELSE LET fx == DictGet(res, PyStr("features_extracted"), PyNone)
         IN  IF NoPayload(fx) THEN {<<>>}
             ELSE IF IsTableLike(fx, vr) /\ Len(fx.columns) > 0
                  THEN {Filtered(TableRows(fx), vr)}
             ELSE IF fx.t = "dict"
                  THEN {Filtered(KeyedRows(fx, keys), vr) : keys \in SortOutcomes(KeysOf(fx))}
             ELSE IF fx.t = "list"
                  THEN {Filtered(SequenceRows(fx), vr)}
             ELSE IF fx.t = "str"
                  THEN LET obj == TryExcept(JsonLoads(strip(fx.s)), PyNone)
                       IN  IF obj.t = "dict"
                           THEN {Filtered(KeyedRows(obj, keys), vr) :
                                   keys \in SortOutcomes(KeysOf(obj))}
                           ELSE {WrapAsRow(fx)}
             ELSE {WrapAsRow(PyStr(Str(fx)))}

-----------------------------------------------------------------------------
(* The inputs of _normalize.                                               *)

NormAlphabet == {"0", "2", "-", ".", "e", ",", " ", "n", "o", "N"}

RECURSIVE Strs(_)
Strs(n) ==
    IF n = 0 THEN {""}
    ELSE LET P == Strs(n - 1) IN P \cup {s \o c : s \in P, c \in NormAlphabet}

ExampleStrings ==
    { "2,3,none", "none", "None", "auto", " Auto ", "AUTO", "1,-2", "1e-2", "2.50",
      "nan", "nan,1", "1_0", "1_0,2", "+2", "+2,3", " abc ", "a,b", "1e22", "1e22,2",
      "0.00001,2", "1e400", "Fixed Bin Number", "[2, 3]" }

NormalizeInputs ==
    {PyNone, PyBool(TRUE), PyBool(FALSE)}
        \cup {PyInt(i) : i \in (0 - MaxInt)..MaxInt}
        \cup {PyFloat(FALSE, 5, 0 - 1), PyFloat(TRUE, 2, 0), PyNaN}
        \cup {PyStr(s) : s \in Strs(MaxStrLen) \cup ExampleStrings}
        \cup {PyList(<<PyInt(2), PyInt(3), PyNone>>), PyList(<<PyStr("a")>>), PyList(<<>>)}

-----------------------------------------------------------------------------
(* SpecNormalize: _normalize applied to a value, then to its own result.   *)

InitNormalize ==
    /\ variant \in Variants
    /\ nArg \in NormalizeInputs
    /\ nRet1 = Idle
    /\ nRet2 = Idle
    /\ nPc = "input"
    /\ ConfigIdle /\ RowsIdle /\ WidgetIdle
    /\ FilterIdle /\ WaitIdle /\ CsvIdle /\ PanelIdle

Coerce ==
    /\ nPc = "input"
    /\ nRet1' = _normalize(nArg)
    /\ nPc' = "coerced"
    /\ UNCHANGED <<variant, filterVars, waitVars, csvVars, panelVars, nArg, nRet2, cfgVars, rowVars,
                 widgetVars>>

CoerceAgain ==
    /\ nPc = "coerced"
    /\ ~IsRaise(nRet1)
    /\ nRet2' = _normalize(nRet1)
    /\ nPc' = "recoerced"
    /\ UNCHANGED <<variant, filterVars, waitVars, csvVars, panelVars, nArg, nRet1, cfgVars, rowVars,
                 widgetVars>>

NextNormalize == Coerce \/ CoerceAgain

SpecNormalize == InitNormalize /\ [][NextNormalize]_vars

-----------------------------------------------------------------------------
(* The parameters files and UI overrides of SpecConfig.                    *)

BaseKeys == <<"deep_learning_model", "extraction_mode", "report">>
UiKeys ==
    <<"radiomics_deep_learning_model", "radiomics_extraction_mode", "radiomics_report",
      "custom_key">>

RdefValues == {PyStr("all"), PyInt(4)}
RawValues == {PyStr("error"), PyNone}
UiValues == {PyNone, PyStr(""), PyStr(" "), PyStr("None"), PyStr("info")}

\* the sequence s without the elements outside the set S
RECURSIVE Restrict(_, _)
Restrict(s, S) ==
    IF Len(s) = 0 THEN <<>>
    ELSE (IF Head(s) \in S THEN <<Head(s)>> ELSE <<>>) \o Restrict(Tail(s), S)

\* the dicts with n of the keys of keySeq (each with `prefix` before it), in that order
DictsOfSize(keySeq, prefix, values, n) ==
    { PyDict([i \in 1..n |-> <<PyStr(prefix \o Restrict(keySeq, DOMAIN f)[i]),
                                f[Restrict(keySeq, DOMAIN f)[i]]>>]) :
        f \in UNION {[D -> values] : D \in {X \in SUBSET {keySeq[i] : i \in 1..Len(keySeq)} :
                                                   Cardinality(X) = n}} }

CliMap(pairs) == PyDict([i \in 1..Len(pairs) |-> <<PyStr(pairs[i][1]), PyStr(pairs[i][2])>>])

CliMaps ==
    { CliMap(<<>>),
      CliMap(<< <<"radiomics_extraction_mode", "extraction_mode">> >>),
      CliMap(<< <<"radiomics_report", "extraction_mode">> >>),
      CliMap(<< <<"radiomics_deep_learning_model", "deep_learning_model">>,
                <<"radiomics_report", "report">> >>),
      CliMap(<< <<"radiomics_report", "deep_learning_model">> >>),
      CliMap(<< <<"radiomics_report", "verbosity">>,
                <<"radiomics_extraction_mode", "verbosity">> >>),
      CliMap(<< <<"custom_key", "report">> >>) }

\* the parameters file: the "radiomics" block, the top-level radiomics_* keys, "cli_key_map"
ParametersFile(rdef, raw, cmap) ==
    PyDict((IF Len(rdef.d) = 0 THEN <<>> ELSE << <<PyStr("radiomics"), rdef>> >>)
           \o raw.d
           \o (IF Len(cmap.d) = 0 THEN <<>> ELSE << <<PyStr("cli_key_map"), cmap>> >>))

\* the top-level radiomics_* items of the parameters file
RawItems == Restrict(CFG_FILE.d, {it \in {CFG_FILE.d[i] : i \in 1..Len(CFG_FILE.d)} :
                                      startswith(it[1].s, "radiomics_")})

-----------------------------------------------------------------------------
(* SpecConfig: the parameters file is loaded, _compose_cfg merges the UI    *)
(* overrides into it, _build_cli_kwargs translates the merged mapping.     *)

InitConfig ==
    /\ variant \in Variants
    /\ \E a \in 0..MaxEntries : \E b \in 0..(MaxEntries - a) :
         \E rdef \in DictsOfSize(BaseKeys, "", RdefValues, a) :
           \E raw \in DictsOfSize(BaseKeys, "radiomics_", RawValues, b) :
             \E cmap \in CliMaps :
               CFG_FILE = ParametersFile(rdef, raw, cmap)
    /\ params_from_ui = Idle
    /\ cfg = Idle
    /\ cli = Idle
    /\ cPc = "loaded"
    /\ NormalizeIdle /\ RowsIdle /\ WidgetIdle
    /\ FilterIdle /\ WaitIdle /\ CsvIdle /\ PanelIdle

ComposeCfg ==
    /\ cPc = "loaded"
    /\ \E c \in 0..(MaxEntries - Len(RDEF.d) - Len(RawItems)) :
         \E ui \in DictsOfSize(UiKeys, "", UiValues, c) \cup {PyNone} :
           /\ params_from_ui' = ui
           /\ cfg' = _compose_cfg(ui, variant)
    /\ cPc' = "composed"
    /\ UNCHANGED <<variant, filterVars, waitVars, csvVars, panelVars, normVars, CFG_FILE, cli,
                 rowVars, widgetVars>>

BuildCliKwargs ==
    /\ cPc = "composed"
    /\ cli' = _build_cli_kwargs(cfg, variant)
    /\ cPc' = "built"
    /\ UNCHANGED <<variant, filterVars, waitVars, csvVars, panelVars, normVars, CFG_FILE,
                 params_from_ui, cfg, rowVars, widgetVars>>

NextConfig == ComposeCfg \/ BuildCliKwargs

SpecConfig == InitConfig /\ [][NextConfig]_vars

-----------------------------------------------------------------------------
(* The results the external batch call is made to return.                  *)

\* most entries of a mapping payload
MaxFeatures == 2

\* most items of a list payload
MaxItems == 3

FeaturesKey == PyStr("features_extracted")

PayloadKeys ==
    {PyStr("a"), PyStr("b"), PyStr("B"), PyStr("ROI"), PyStr(" Mask"), PyInt(2), PyInt(10)}

\* the sequences of n different elements of S
RECURSIVE Arrangements(_, _)
Arrangements(S, n) ==
    IF n = 0 THEN {<<>>}
    ELSE UNION {{<<x>> \o rest : rest \in Arrangements(S \ {x}, n - 1)} : x \in S}

\* mappings in every insertion order, the i-th entry holding 10 * i
MappingPayloads ==
    UNION {{PyDict([i \in 1..n |-> <<keys[i], PyInt(10 * i)>>]) :
              keys \in Arrangements(PayloadKeys, n)} : n \in 0..MaxFeatures}

PayloadItems ==
    { PyList(<<PyStr("f1"), PyInt(10)>>),
      PyList(<<PyStr("f2"), PyInt(20)>>),
      PyTuple(<<PyStr("ROI"), PyInt(1)>>),
      PyList(<<PyStr("f1"), PyStr("f2")>>),
      PyList(<<PyInt(10), PyInt(20)>>),
      PyList(<<PyStr("x")>>),
      PyList(<<PyStr("a"), PyInt(1), PyInt(2)>>),
      PyList(<<PyStr("ROI"), PyStr("f2"), PyStr("f3")>>),
      PyDict(<< <<PyStr("feature"), PyStr("f3")>>, <<PyStr("value"), PyInt(3)>> >>),
      PyDict(<< <<PyStr("k"), PyInt(1)>>, <<PyStr("case"), PyInt(2)>> >>),
      PyInt(5) }

RECURSIVE SeqsUpTo(_, _)
SeqsUpTo(S, n) ==
    IF n = 0 THEN {<<>>}
    ELSE LET shorter == SeqsUpTo(S, n - 1)
         IN  shorter \cup {Append(q, x) : q \in {r \in shorter : Len(r) = n - 1}, x \in S}

ListPayloads == {PyList(q) : q \in SeqsUpTo(PayloadItems, MaxItems)}

TextPayloads ==
    { PyStr("{\"b\": 1, \"a\": 2}"), PyStr(" {\"ROI\": 1, \"f\": true} "), PyStr("{}"),
      PyStr("{\"a\": 1,}"), PyStr("[1, 2]"), PyStr("3"), PyStr("not json"), PyStr("") }

TablePayloads ==
    { PyTable(TRUE, <<PyStr("f1"), PyStr("PatientID")>>,
              << <<PyFloat(FALSE, 15, -1), PyStr("p1")>> >>, "<DataFrame 1x2>"),
      PyTable(TRUE, <<PyStr("f1"), PyInt(2)>>, <<>>, "<DataFrame 0x2>"),
      PyTable(TRUE, <<>>, <<>>, "<DataFrame 0x0>"),
      PyTable(FALSE, <<PyStr("f1")>>, << <<PyInt(1)>> >>, "<Table 1x1>") }

\* payloads of no expected shape: numbers, a bool, a tuple, an arbitrary object
OtherPayloads ==
    { PyInt(3), PyFloat(FALSE, 25, -1), PyBool(FALSE),
      PyTuple(<<PyStr("f1"), PyInt(10)>>), PyObject("<Obj>") }

WithPayload(fx) ==
    PyDict(<< <<PyStr("processed_files"), PyInt(1)>>, <<FeaturesKey, fx>> >>)

\* results that are no dict or carry no payload
BareResults ==
    { PyNone, PyList(<<>>), PyStr("done"), EmptyDict,
      PyDict(<< <<PyStr("processed_files"), PyInt(1)>> >>), WithPayload(PyNone) }

Results ==
    BareResults \cup
    {WithPayload(fx) : fx \in MappingPayloads \cup ListPayloads \cup TextPayloads
                              \cup TablePayloads \cup OtherPayloads}

-----------------------------------------------------------------------------
(* Specification of feature_rows_from_result: the batch call has returned  *)
(* `result`, and the normalizer turns it into rows.                        *)

InitRows ==
    /\ variant \in Variants
    /\ result \in Results
    /\ rows = <<>>
    /\ rPc = "returned"
    /\ NormalizeIdle /\ ConfigIdle /\ WidgetIdle
    /\ FilterIdle /\ WaitIdle /\ CsvIdle /\ PanelIdle

FeatureRowsFromResult ==
    /\ rPc = "returned"
    /\ rows' \in feature_rows_from_result(result, variant)
    /\ rPc' = "normalized"
    /\ UNCHANGED <<variant, filterVars, waitVars, csvVars, panelVars, normVars, cfgVars, result,
                 widgetVars>>

NextRows == FeatureRowsFromResult

SpecRows == InitRows /\ [][NextRows]_vars

-----------------------------------------------------------------------------
(* Specification of _filter_meta, the metadata filter of the PySERA copy:  *)
(* it is called with pairs and returns the pairs it keeps.                 *)

\* most pairs passed to the filter
MaxPairs == 3

NamedPairs ==
    { <<"PatientID", PyStr("X123")>>, <<"Energy", PyInt(5)>>, <<" roi ", PyInt(1)>>,
      <<"MASK", PyNone>>, <<"Images", PyInt(2)>>, <<"case_1", PyStr("c")>>,
      <<"Energy", PyInt(7)>>, <<"subject", PyStr("s")>> }

InitFilter ==
    /\ variant = "PySERA"
    /\ fArg \in SeqsUpTo(NamedPairs, MaxPairs)
    /\ fRet = <<>>
    /\ fPc = "called"
    /\ NormalizeIdle /\ ConfigIdle /\ RowsIdle /\ WidgetIdle /\ WaitIdle /\ CsvIdle /\ PanelIdle

FilterMeta ==
    /\ fPc = "called"
    /\ fRet' = _filter_meta(fArg)
    /\ fPc' = "filtered"
    /\ UNCHANGED <<variant, normVars, cfgVars, rowVars, widgetVars, fArg, waitVars, csvVars, panelVars>>

NextFilter == FilterMeta

SpecFilter == InitFilter /\ [][NextFilter]_vars

\* the rows of s at the positions in I, in their order in s
RECURSIVE Pick(_, _)
Pick(s, I) ==
    IF Len(s) = 0 THEN <<>>
    ELSE Pick(SubSeq(s, 1, Len(s) - 1), I)
         \o (IF Len(s) \in I THEN <<s[Len(s)]>> ELSE <<>>)

\* C12: the filter returns the rows passed in without those whose stripped,
\* lower-cased name is patientid, roi, case, subject, image or mask; every other row
\* is returned unchanged, in the order passed in.
C12_DropsDenyListOnly ==
    fPc = "filtered" =>
        fRet = Pick(fArg, {i \in 1..Len(fArg) :
                             lower(strip(fArg[i][1])) \notin
                               {"patientid", "roi", "case", "subject", "image", "mask"}})

\* ("PatientID", "X123") was passed in with ("Energy", 5): only the second came back
C12_Witness ==
    /\ fPc = "filtered"
    /\ \E i \in 1..Len(fArg) : fArg[i] = <<"PatientID", PyStr("X123")>>
    /\ \E i \in 1..Len(fArg) : fArg[i] = <<"Energy", PyInt(5)>>
    /\ fRet = << <<"Energy", PyInt(5)>> >>

-----------------------------------------------------------------------------
(* PySERALogic._wait_for_readable_file and its specification: every        *)
(* attempt finds the path in some condition.                               *)

\* the attempts one call makes at most (retries = 160 in the code)
WaitRetries == 3

\* the errors getsize or open can raise at an attempt
WaitErrors == {"PermissionError", "FileNotFoundError"}

\* what an attempt can find: no file, an empty file, a file that opens, an error
Conditions == {"missing", "empty", "ready"} \cup WaitErrors

\* except Exception as e: last_err stays the first error seen
Remember_First(last_err, e) == IF last_err = PyNone THEN PyStr(e) ELSE last_err

\* except Exception as e: last_err = e
Remember(last_err, e) == PyStr(e)

\* the loop from attempt i on; the outcome says what was returned or raised, how
\* many attempts were made and how often time.sleep was called
RECURSIVE WaitLoop(_, _, _, _)
WaitLoop(obs, i, retries, last_err) ==
    IF i > retries
    THEN [ret |-> IF last_err # PyNone THEN [t |-> "raise", exc |-> last_err.s]
                  ELSE PyBool(FALSE),
          attempts |-> retries, sleeps |-> retries]
    ELSE IF obs[i] = "ready"
    THEN [ret |-> PyBool(TRUE), attempts |-> i, sleeps |-> i - 1]
    ELSE WaitLoop(obs, i + 1, retries,
                  IF obs[i] \in WaitErrors THEN Remember(last_err, obs[i]) ELSE last_err)

_wait_for_readable_file(obs, retries) == WaitLoop(obs, 1, retries, PyNone)

InitWait ==
    /\ variant \in Variants
    /\ wObs \in [1..WaitRetries -> Conditions]
    /\ wRet = Idle
    /\ wPc = "waiting"
    /\ NormalizeIdle /\ ConfigIdle /\ RowsIdle /\ WidgetIdle /\ FilterIdle /\ CsvIdle /\ PanelIdle

WaitForReadableFile ==
    /\ wPc = "waiting"
    /\ wRet' = _wait_for_readable_file(wObs, WaitRetries)
    /\ wPc' = "ended"
    /\ UNCHANGED <<variant, normVars, cfgVars, rowVars, widgetVars, filterVars, wObs, csvVars,
                   panelVars>>

NextWait == WaitForReadableFile

SpecWait == InitWait /\ [][NextWait]_vars

\* the attempts at which the file was ready, and those at which an error was raised
ReadyAt == {i \in 1..Len(wObs) : wObs[i] = "ready"}
ErrorAt == {i \in 1..Len(wObs) : wObs[i] \in WaitErrors}

Least(S) == CHOOSE i \in S : \A j \in S : i <= j
Greatest(S) == CHOOSE i \in S : \A j \in S : j <= i

\* C13: at most `retries` attempts are made; True is returned at the first attempt
\* that finds the file ready; when no attempt does, the last error observed is raised,
\* or False is returned when no error was observed.
C13_WaitOutcome ==
    wPc = "ended" =>
        /\ wRet.attempts <= WaitRetries
        /\ ReadyAt # {} => wRet.ret = PyBool(TRUE) /\ wRet.attempts = Least(ReadyAt)
        /\ (ReadyAt = {} /\ ErrorAt # {}) =>
             wRet.ret = [t |-> "raise", exc |-> wObs[Greatest(ErrorAt)]]
        /\ (ReadyAt = {} /\ ErrorAt = {}) => wRet.ret = PyBool(FALSE)

\* no attempt found the file ready, two different errors were seen, the later one was
\* raised
C13_Witness ==
    /\ wPc = "ended" /\ ReadyAt = {}
    /\ \E i, j \in ErrorAt : i < j /\ wObs[i] # wObs[j] /\ j = Greatest(ErrorAt)
    /\ wRet.ret = [t |-> "raise", exc |-> wObs[Greatest(ErrorAt)]]
    /\ wRet.attempts = WaitRetries

-----------------------------------------------------------------------------
(* PySERALogic.load_features_as_feature_value_rows. The file holds no      *)
(* quote and no carriage return, so csv.reader gives one row per line, its *)
(* cells the parts between the commas, and no cell for an empty line.      *)

\* list(csv.reader(f)) for the text of the file
CsvRows(text) ==
    LET parts == split(text, "\n")
        lines == IF parts[Len(parts)] = "" THEN SubSeq(parts, 1, Len(parts) - 1) ELSE parts
    IN  [i \in 1..Len(lines) |-> IF lines[i] = "" THEN <<>> ELSE split(lines[i], ",")]

\* sep.join(cells)
RECURSIVE join(_, _)
join(sep, cells) ==
    IF Len(cells) = 0 THEN ""
    ELSE IF Len(cells) = 1 THEN cells[1]
    ELSE cells[1] \o sep \o join(sep, Tail(cells))

\* the long-format test with the labels compared as they are written
IsLong_CaseSensitive(header) ==
    Len(header) >= 2 /\ header[1] \in {"feature", "name"} /\ header[2] \in {"value", "val"}

\* the long-format test on the header
IsLong(header) ==
    /\ Len(header) >= 2
    /\ lower(strip(header[1])) \in {"feature", "name"}
    /\ lower(strip(header[2])) \in {"value", "val"}

\* a wide-format test that no file passes
IsWide_Never(rs) == FALSE

\* the wide-format test on the rows of the file
IsWide(rs) == Len(rs) >= 2 /\ Len(rs[2]) = Len(rs[1]) /\ Len(rs[1]) >= 2

\* the fallback with the empty rows kept
PseudoRows_WithEmpty(rs) ==
    [i \in 1..(Len(rs) - 1) |-> <<join(",", rs[i + 1]), PyStr("")>>]

\* the fallback: one pseudo-row for every non-empty row after the first
PseudoRows(rs) ==
    LET rest == SelectSeq(Tail(rs), LAMBDA r : Len(r) > 0)
    IN  [i \in 1..Len(rest) |-> <<join(",", rest[i]), PyStr("")>>]

\* the rows returned for the rows read from the file
LoadedRows(rs) ==
    IF Len(rs) = 0 THEN <<>>
    ELSE IF IsLong(rs[1])
    THEN LET rest == SelectSeq(Tail(rs), LAMBDA r : Len(r) >= 2)
         IN  [i \in 1..Len(rest) |-> <<rest[i][1], PyStr(rest[i][2])>>]
    ELSE IF IsWide(rs)
    THEN [i \in 1..Len(rs[1]) |-> <<rs[1][i], PyStr(rs[2][i])>>]
    ELSE PseudoRows(rs)

\* ok is how _wait_for_readable_file ended, text what the file holds when it is read
load_features_as_feature_value_rows(ok, text) ==
    IF IsRaise(ok) THEN [raised |-> TRUE, rows |-> <<>>]
    ELSE IF ~ok.b THEN [raised |-> FALSE, rows |-> <<>>]
    ELSE [raised |-> FALSE, rows |-> LoadedRows(CsvRows(text))]

-----------------------------------------------------------------------------
(* Specification of the CSV reader: the output file holds some lines and   *)
(* the wait for it ends in some way.                                       *)

\* most lines of the output file
MaxCsvLines == 3

CsvLinePool ==
    {"", "Feature,Value", " name , VAL ", "f1,f2", "1,2", "f1", "1,2,3", "Energy,123.4"}

\* the lines, each ended by a line feed
RECURSIVE Lines(_)
Lines(q) == IF Len(q) = 0 THEN "" ELSE Head(q) \o "\n" \o Lines(Tail(q))

\* the texts of the file; one of them ends without a line feed
CsvTexts == {Lines(q) : q \in SeqsUpTo(CsvLinePool, MaxCsvLines)} \cup {"f1,f2\n1,2"}

WaitOutcomes == {PyBool(TRUE), PyBool(FALSE), [t |-> "raise", exc |-> "PermissionError"]}

InitCsv ==
    /\ variant \in Variants
    /\ csvText \in CsvTexts
    /\ csvOk \in WaitOutcomes
    /\ lRet = Idle
    /\ lPc = "written"
    /\ NormalizeIdle /\ ConfigIdle /\ RowsIdle /\ WidgetIdle /\ FilterIdle /\ WaitIdle
    /\ PanelIdle

LoadFeatures ==
    /\ lPc = "written"
    /\ lRet' = load_features_as_feature_value_rows(csvOk, csvText)
    /\ lPc' = "loaded"
    /\ UNCHANGED <<variant, normVars, cfgVars, rowVars, widgetVars, filterVars, waitVars,
                   csvText, csvOk, panelVars>>

NextCsv == LoadFeatures

SpecCsv == InitCsv /\ [][NextCsv]_vars

-----------------------------------------------------------------------------
(* The widget: onCompute, the feature and summary tables, the CSV poll.    *)

\* the retry budget _poll_csv_until_ready is started with (tries = 160 in the code)
PollTries == 2

\* most invocations of the external batch call in one behaviour
MaxRuns == 2

Status(text, color) == [text |-> text, color |-> color]

\* s.replace(old, new) for a one-character old
RECURSIVE replace(_, _, _)
replace(s, old, new) ==
    IF s = "" THEN ""
    ELSE (IF Head(s) = old THEN new ELSE Head(s)) \o replace(Tail(s), old, new)

\* stands for the one character U+2026
Ellipsis == "..."

\* the text _shorten_for_cell puts in a cell; the PySera_Ext copy neither replaces
\* line breaks nor strips
_shorten_for_cell(v, max_len, vr) ==
    LET s == IF v = PyNone THEN "" ELSE Str(v)
        t == IF vr = "PySERA" THEN strip(replace(s, "\n", " ")) ELSE s
    IN  IF Len(t) <= max_len THEN t ELSE SubSeq(t, 1, max_len - 1) \o Ellipsis

\* the cells of the feature table after _fill_extracted_features_table(rs)
FilledFeatureTable(rs, vr) ==
    [i \in 1..Len(rs) |->
       IF vr = "PySERA"
       THEN <<rs[i][1], _shorten_for_cell(rs[i][2], 120, vr)>>
       ELSE <<_shorten_for_cell(PyStr(rs[i][1]), 200, vr), _shorten_for_cell(rs[i][2], 200, vr)>>]

InfoRows == << <<"Info", PyStr("Waiting for CSV to load...")>> >>
ErrorRows == << <<"Error", PyStr("Could not load features (CSV not ready/locked)")>> >>

\* the path _make_output_csv returns, without its time stamp and random suffix
output_csv(is_single) ==
    IF is_single THEN "extracted_radiomics_features.csv"
    ELSE "extracted_radiomics_features_BATCH.csv"

mode_str(is_single) == IF is_single THEN "Single Case" ELSE "Batch (Folders)"

\* round(dt, 3) of one run
Runtime == PyFloat(FALSE, 5, -1)

processed_files(res) ==
    IF res.t = "dict" /\ HasKey(res, PyStr("processed_files"))
    THEN Lookup(res, PyStr("processed_files")) ELSE PyStr("N/A")

\* the cells of the summary table one run fills in
FilledSummaryTable(res, rs, is_single, vr) ==
    IF vr = "PySERA"
    THEN << <<"input_type", _shorten_for_cell(PyStr(mode_str(is_single)), 80, vr)>>,
            <<"output_csv", _shorten_for_cell(PyStr(output_csv(is_single)), 80, vr)>>,
            <<"processed_files", _shorten_for_cell(processed_files(res), 80, vr)>>,
            <<"features_count", _shorten_for_cell(PyInt(Len(rs)), 80, vr)>>,
            <<"runtime_seconds", _shorten_for_cell(Runtime, 80, vr)>> >>
    ELSE LET fx_summary == IF res.t = "dict"
                           THEN DictGet(res, PyStr("features_extracted"), PyStr("N/A"))
                           ELSE PyStr("N/A")
             text(v) == IF v = PyNone THEN "" ELSE Str(v)
         IN  << <<"output_path", output_csv(is_single)>>,
                <<"processed_files", text(processed_files(res))>>,
                <<"features_extracted", _shorten_for_cell(fx_summary, 140, vr)>>,
                <<"processing_time (s)", text(Runtime)>> >>

\* the paths the user can have chosen: none, a file, a folder
Paths == {"", "image.nrrd", "folder"}

isdir(path) == path = "folder"

\* an input check of the batch mode that only tests for empty paths
InputError_EmptyOnly(is_single, image_path, mask_path, vr) ==
    IF image_path = "" THEN "Error: Select an image."
    ELSE IF mask_path = "" THEN "Error: Select a mask."
    ELSE ""

\* the message of the input check that fails, "" when the input passes
InputError(is_single, image_path, mask_path, vr) ==
    IF vr = "PySera_Ext"
    THEN IF image_path = "" THEN "Please select an image."
         ELSE IF mask_path = "" THEN "Please select a mask."
         ELSE ""
    ELSE IF is_single
    THEN IF image_path = "" THEN "Error: Select an image file file."
         ELSE IF mask_path = "" THEN "Error: Select a mask file file."
         ELSE ""
    ELSE IF image_path = "" \/ ~isdir(image_path) THEN "Error: Select an image folder."
         ELSE IF mask_path = "" \/ ~isdir(mask_path) THEN "Error: Select a mask folder."
         ELSE ""

\* what the imports and the install of one run meet: whether pysera is importable
\* at first, whether pip_install returns, whether pysera is importable after it
Environments ==
    { [importable |-> TRUE, pip_ok |-> TRUE, installed |-> TRUE],
      [importable |-> FALSE, pip_ok |-> FALSE, installed |-> FALSE],
      [importable |-> FALSE, pip_ok |-> TRUE, installed |-> FALSE],
      [importable |-> FALSE, pip_ok |-> TRUE, installed |-> TRUE] }

\* a helper that gives up without an install
_ensure_package_available_NoInstall(env) ==
    [raised |-> ~env.importable, imports |-> 1, installs |-> 0]

\* _ensure_package_available: whether it raises ImportError, and how many imports and
\* installs it has attempted
_ensure_package_available(env) ==
    IF env.importable
    THEN [raised |-> FALSE, imports |-> 1, installs |-> 0]
    ELSE IF ~env.pip_ok
    THEN [raised |-> TRUE, imports |-> 1, installs |-> 1]
    ELSE [raised |-> ~env.installed, imports |-> 2, installs |-> 1]

ImportErrorText == "Python package 'pysera' is required but could not be installed."

\* the levels of the logging module
DEBUG == 10
ERROR == 40

\* the report settings of the runs
Reports == {"all", "error"}

\* _configure_logging_level: the level the logger and its handlers are set to
_configure_logging_level(report) ==
    LET report_sel == lower(strip(report))
    IN  IF report_sel = "none" THEN 51
        ELSE IF report_sel = "error" THEN ERROR
        ELSE IF report_sel = "warning" THEN 30
        ELSE IF report_sel = "info" THEN 20
        ELSE DEBUG

\* the record of one onCompute
Run(is_single, image_path, mask_path, env, ens, made, called) ==
    [is_single |-> is_single, image_path |-> image_path, mask_path |-> mask_path,
     env |-> env, raised |-> ens.raised, imports |-> ens.imports,
     installs |-> ens.installs, made |-> made, called |-> called]

NotImported == [raised |-> FALSE, imports |-> 0, installs |-> 0]

\* the external batch call raised
CallRaised == [t |-> "raise", exc |-> "RuntimeError"]

\* payloads of the batch call in the widget's runs: of no expected shape, without
\* rows, with rows, with rows the metadata filter drops
WidgetPayloads ==
    { PyInt(3), PyObject("<Obj>"), EmptyDict, PyStr("not json"),
      PyTable(TRUE, <<PyStr("f1"), PyStr("PatientID")>>,
              << <<PyFloat(FALSE, 15, -1), PyStr("p1")>> >>, "<DataFrame 1x2>"),
      PyDict(<< <<PyStr("b"), PyInt(1)>>, <<PyStr("a"), PyInt(2)>> >>),
      PyDict(<< <<PyStr("ROI"), PyInt(1)>> >>),
      PyList(<<PyInt(5)>>) }

WidgetResults ==
    { PyNone, PyDict(<< <<PyStr("processed_files"), PyInt(1)>> >>), WithPayload(PyNone) }
    \cup {WithPayload(fx) : fx \in WidgetPayloads}

\* feature_rows_from_result on the results of the widget's runs, tabulated
RowsOfResult ==
    [vr \in Variants |-> [res \in WidgetResults |-> feature_rows_from_result(res, vr)]]

\* what the attempts of one reader call find at the path of the output file: it is
\* ready, it never appears, it is locked
TickWaits ==
    { [i \in 1..WaitRetries |-> "ready"],
      [i \in 1..WaitRetries |-> "missing"],
      [i \in 1..WaitRetries |-> "PermissionError"] }

\* what the output file holds when a reader call opens it
TickTexts ==
    { "Feature,Value\nPatientID,p1\nf1,1.5\n" }

\* one call of load_features_as_feature_value_rows from _tick: what it returns or
\* raises, and the readiness checks and sleeps its wait made (retries at its default)
ReaderCall(obs, text) ==
    LET wait == _wait_for_readable_file(obs, WaitRetries)
        read == load_features_as_feature_value_rows(wait.ret, text)
    IN  [raised |-> read.raised, rows |-> read.rows,
         checks |-> wait.attempts, sleeps |-> wait.sleeps]

\* what one call of load_features_as_feature_value_rows can give on the output file
CsvReads == {ReaderCall(obs, text) : obs \in TickWaits, text \in TickTexts}

\* the row lists the widget puts in the feature table
ShownRows ==
    UNION {RowsOfResult[vr][res] : vr \in Variants, res \in WidgetResults}
    \cup {InfoRows, ErrorRows} \cup {read.rows : read \in CsvReads}

\* FilledFeatureTable and FilledSummaryTable on what the widget shows, tabulated
FeatureCells == [vr \in Variants |-> [rs \in ShownRows |-> FilledFeatureTable(rs, vr)]]
SummaryCells ==
    [vr \in Variants |-> [is_single \in BOOLEAN |-> [res \in WidgetResults |->
       [rs \in RowsOfResult[vr][res] |-> FilledSummaryTable(res, rs, is_single, vr)]]]]

\* PySeraWidget.__init__ and setup
Init ==
    /\ variant \in Variants
    /\ statusLabel = Status("Ready.", "green")
    /\ featureTable = <<>>
    /\ summaryTable = <<>>
    /\ _csvPollRemaining = 0
    /\ timers = {}
    /\ calls = 0
    /\ ticks = [poll \in 1..MaxRuns |-> 0]
    /\ overlapped = {}
    /\ lastTick = Idle
    /\ lastRun = Idle
    /\ loggerLevel = DEBUG
    /\ NormalizeIdle /\ ConfigIdle /\ RowsIdle
    /\ FilterIdle /\ WaitIdle /\ CsvIdle /\ PanelIdle

\* _poll_csv_until_ready up to its first wait: the budget is set anew and the timer
\* of the new poll, named by the number of its run, is started
PollStarts(vr) ==
    /\ _csvPollRemaining' = PollTries
    /\ statusLabel' = Status(IF vr = "PySERA"
                             THEN "Running... waiting for output file to finalize."
                             ELSE "Waiting for output CSV to be finalized...", "blue")
    /\ timers' = timers \cup {calls + 1}
    /\ overlapped' = IF timers = {} THEN overlapped ELSE overlapped \cup timers \cup {calls + 1}

\* the message of the TypeError of _apply_two_column_widths(table, left_min=...,
\* right_width=...) in the PySera_Ext copy, whose definition takes neither keyword
WidthsTypeError ==
    "PySeraWidget._apply_two_column_widths() got an unexpected keyword argument 'left_min'"

\* onCompute of the PySera_Ext copy from the point the batch call has returned res:
\* the summary rows are set, the call that sizes the columns raises, and the
\* handler of onCompute shows the error; the normalizer is never reached
ShowSummaryOnly(res, vr) ==
    /\ result' = res
    /\ summaryTable' = FilledSummaryTable(res, <<>>, TRUE, vr)
    /\ statusLabel' = Status("Error: " \o WidthsTypeError, "red")
    /\ UNCHANGED <<rows, featureTable, _csvPollRemaining, timers, overlapped>>

\* a fallback that is also taken for a single row
FallsBack_FewRows(rs) == Len(rs) <= 1

\* the test of onCompute that takes the CSV fallback: `if not rows`
FallsBack(rs) == rs = <<>>

\* onCompute of the PySERA copy from the point the batch call has returned res and
\* the normalizer rs
ShowResult(res, rs, is_single, vr) ==
    /\ result' = res
    /\ rows' = rs
    /\ summaryTable' = SummaryCells[vr][is_single][res][rs]
    /\ IF ~FallsBack(rs)
       THEN /\ featureTable' = FeatureCells[vr][rs]
            /\ statusLabel' =
                 Status(IF vr = "PySERA"
                        THEN "Done. " \o IntToStr(Len(rs)) \o " features. Output saved."
                        ELSE "Done. Features saved to: " \o output_csv(is_single), "green")
            /\ UNCHANGED <<_csvPollRemaining, timers, overlapped>>
       ELSE /\ featureTable' = FeatureCells[vr][InfoRows]
            /\ PollStarts(vr)

\* a handler that shows nothing of the exception
ShowError_Silent(e) ==
    UNCHANGED <<statusLabel, featureTable, summaryTable, _csvPollRemaining, timers,
                overlapped, rows>>

\* the except branch of onCompute for an exception of message e
ShowError(e) ==
    /\ statusLabel' = Status("Error: " \o e, "red")
    /\ UNCHANGED <<featureTable, summaryTable, _csvPollRemaining, timers, overlapped, rows>>

\* what the user can have chosen when Compute is clicked: the mode and the two paths
\* (in single mode, which only tests for empty paths, two chosen paths are of one kind)
UserInputs ==
    {input \in BOOLEAN \X Paths \X Paths :
        input[1] => (input[2] = "" \/ input[3] = "" \/ input[2] = input[3])}

\* the Compute button, clicked with one of the given inputs, in one of the given
\* environments, with one of the given report settings, the batch call returning one
\* of the given results; the PySera_Ext copy has the single mode only. The PySERA
\* copy makes the output directory and the CSV path before it imports pysera, the
\* PySera_Ext copy after.
onCompute(inputs, envs, reports, results) ==
    /\ calls < MaxRuns
    /\ \E input \in {i \in inputs : variant = "PySera_Ext" => i[1]} :
         LET is_single == input[1]
             image_path == input[2]
             mask_path == input[3]
             error == InputError(is_single, image_path, mask_path, variant)
         IN  IF error # ""
             THEN /\ statusLabel' = Status(error, "red")
                  /\ lastRun' = Run(is_single, image_path, mask_path, Idle, NotImported,
                                    FALSE, FALSE)
                  /\ UNCHANGED <<featureTable, summaryTable, _csvPollRemaining, timers,
                                 overlapped, calls, result, rows, loggerLevel>>
             ELSE \E env \in envs :
               LET ens == _ensure_package_available(env)
               IN  IF ens.raised
                   THEN /\ ShowError(ImportErrorText)
                        /\ lastRun' = Run(is_single, image_path, mask_path, env, ens,
                                          variant = "PySERA", FALSE)
                        /\ UNCHANGED <<calls, result, loggerLevel>>
                   ELSE /\ calls' = calls + 1
                        /\ lastRun' = Run(is_single, image_path, mask_path, env, ens,
                                          TRUE, TRUE)
                        /\ \E report \in reports :
                             loggerLevel' = _configure_logging_level(report)
                        /\ \/ /\ result' = CallRaised
                              /\ ShowError(CallRaised.exc)
                           \/ \E res \in results :
                                IF variant = "PySera_Ext"
                                THEN ShowSummaryOnly(res, variant)
                                ELSE \E rs \in RowsOfResult[variant][res] :
                                       ShowResult(res, rs, is_single, variant)
    /\ lastTick' = Idle
    /\ UNCHANGED <<variant, filterVars, waitVars, csvVars, panelVars, normVars, cfgVars,
                   rPc, ticks>>

\* a _tick that goes on for ever
Reschedules_Always(remaining) == TRUE

\* the test of _tick that starts its timer again
Reschedules(remaining) == remaining > 0

\* what a _tick did: its reader call, and whether an exception left the callback
Outcome(read, escaped) ==
    [raised |-> read.raised, rows |-> read.rows, checks |-> read.checks,
     sleeps |-> read.sleeps, escaped |-> escaped]

\* the timer of a poll fires: its _tick runs, the wait of its reader call included.
\* In the PySera_Ext copy _fill_extracted_features_table raises before it changes
\* the table (setup stopped at the same TypeError before it made the table): raised
\* from the rows just read it is swallowed like a failed read, raised from the error
\* row it ends the tick with the status unset.
_tick(poll) ==
    /\ poll \in timers
    /\ _csvPollRemaining' = _csvPollRemaining - 1
    /\ ticks' = [ticks EXCEPT ![poll] = @ + 1]
    /\ \E read \in CsvReads :
         /\ lastTick' = Outcome(read, variant = "PySera_Ext" /\ ~Reschedules(_csvPollRemaining'))
         /\ IF variant = "PySera_Ext"
            THEN /\ timers' = IF Reschedules(_csvPollRemaining') THEN timers ELSE timers \ {poll}
                 /\ UNCHANGED <<featureTable, statusLabel>>
            ELSE IF ~read.raised /\ read.rows # <<>>
            THEN /\ featureTable' = FeatureCells[variant][read.rows]
                 /\ statusLabel' = Status(IF variant = "PySERA"
                                          THEN "Done. Loaded features from CSV."
                                          ELSE "Features loaded from: " \o "the output file",
                                          "green")
                 /\ timers' = timers \ {poll}
            ELSE IF Reschedules(_csvPollRemaining')
            THEN UNCHANGED <<featureTable, statusLabel, timers>>
            ELSE /\ featureTable' = FeatureCells[variant][ErrorRows]
                 /\ statusLabel' = Status(IF variant = "PySERA"
                                          THEN "Error: CSV was not ready in time."
                                          ELSE "CSV was not ready in time.", "red")
                 /\ timers' = timers \ {poll}
    /\ UNCHANGED <<variant, filterVars, waitVars, csvVars, panelVars, normVars, cfgVars, rowVars,
                   summaryTable, calls, overlapped, loggerLevel>>
    /\ lastRun' = Idle

\* some pending timer fires
Tick == \E poll \in 1..MaxRuns : _tick(poll)

\* the runs of the specification of the poll: an input for each message of the input
\* check, one accepted input of each mode, pysera importable, the default report
PollInputs ==
    { <<TRUE, "", "image.nrrd">>, <<TRUE, "image.nrrd", "">>,
      <<FALSE, "", "folder">>, <<FALSE, "folder", "">>,
      <<TRUE, "image.nrrd", "image.nrrd">>, <<FALSE, "folder", "folder">> }

Importable == {env \in Environments : env.importable}

Next == onCompute(PollInputs, Importable, {"all"}, WidgetResults) \/ Tick

Spec == Init /\ [][Next]_vars

\* the event loop of the host goes on firing timers while some timer is pending
SpecLive == Spec /\ WF_vars(Tick)

\* the runs of the specification of the run: every input, every environment, every
\* report setting, a result without rows and a result with rows
RunResults ==
    { PyNone, WithPayload(PyDict(<< <<PyStr("b"), PyInt(1)>>, <<PyStr("a"), PyInt(2)>> >>)) }

NextRun == onCompute(UserInputs, Environments, Reports, RunResults) \/ Tick

SpecRun == Init /\ [][NextRun]_vars

\* the PySera_Ext widget with the timer of _poll_csv_until_ready just started, as its
\* line 1271 would leave it: the summary of the run is shown, the budget is set, the
\* first tick is pending
InitExtPoll ==
    /\ variant = "PySera_Ext"
    /\ \E res \in WidgetResults :
         /\ result = res
         /\ summaryTable = FilledSummaryTable(res, <<>>, TRUE, variant)
    /\ rows = <<>>
    /\ rPc = "idle"
    /\ featureTable = <<>>
    /\ statusLabel = Status("Waiting for output CSV to be finalized...", "blue")
    /\ _csvPollRemaining = PollTries
    /\ timers = {1}
    /\ calls = 1
    /\ ticks = [poll \in 1..MaxRuns |-> 0]
    /\ overlapped = {}
    /\ lastTick = Idle
    /\ lastRun = Idle
    /\ \E report \in Reports : loggerLevel = _configure_logging_level(report)
    /\ NormalizeIdle /\ ConfigIdle
    /\ FilterIdle /\ WaitIdle /\ CsvIdle /\ PanelIdle

NextExtPoll == Tick

SpecExtPoll == InitExtPoll /\ [][NextExtPoll]_vars

-----------------------------------------------------------------------------
(* Claims about _normalize, checked under SpecNormalize.                   *)

\* C2: coercion is idempotent on already-coerced values: for every input v,
\* _normalize(_normalize(v)) equals _normalize(v), whatever kind of value
\* _normalize(v) is (None, int, float, "auto", a list, an unparsed string).
C2_Idempotent == nPc = "recoerced" => nRet2 = nRet1

\* the string s, trimmed, is not empty, "none" or "auto", holds no comma and
\* parses neither as an int nor as a float
Unparsable(s) ==
    LET u == strip(s)
    IN  /\ u # ""
        /\ lower(u) \notin {"none", "auto"}
        /\ ~Contains(u, ",")
        /\ ~IsPyInt(u)
        /\ ~IsPyFloat(u)

NeverRaises ==
    /\ nPc # "input" => ~IsRaise(nRet1)
    /\ nPc = "recoerced" => ~IsRaise(nRet2)

\* C3 as claimed: _normalize never raises, and a string that cannot be parsed as a
\* number (and is not empty, "none", "auto" or comma-containing) is returned as the
\* original string that was passed in.
C3_KeepsOriginalString ==
    /\ NeverRaises
    /\ (nPc # "input" /\ nArg.t = "str" /\ Unparsable(nArg.s)) => nRet1 = PyStr(nArg.s)

\* C3 as amended: _normalize never raises, and a string that cannot be parsed as a
\* number (and, trimmed, is not empty, "none", "auto" or comma-containing) is returned
\* with its leading and trailing whitespace stripped.
C3_KeepsStrippedString ==
    /\ NeverRaises
    /\ (nPc # "input" /\ nArg.t = "str" /\ Unparsable(nArg.s))
          => nRet1 = PyStr(strip(nArg.s))

\* C3 witness: an unparsable string with surrounding whitespace has been coerced
C3_Witness ==
    /\ nPc = "coerced"
    /\ nArg.t = "str"
    /\ Unparsable(nArg.s)
    /\ strip(nArg.s) # nArg.s
    /\ nRet1 = PyStr(strip(nArg.s))

\* what C4 says a trimmed part of a comma-containing string becomes
C4_PartAsClaimed(p) ==
    IF IsPyInt(p) THEN PyInt(IntVal(p))
    ELSE IF IsPyFloat(p) THEN FloatVal(p)
    ELSE IF lower(p) = "none" THEN PyNone
    ELSE PyStr(p)

\* C4: for a comma-containing string _normalize returns a list with one element per
\* comma-separated part, in order: the trimmed part as an int if it parses as an int
\* (signed ints such as "-2" included), as a float if it parses only as a float, None
\* for the token "none" in any case, and the trimmed string otherwise.
C4_ListOfParts ==
    (nPc # "input" /\ nArg.t = "str" /\ Contains(strip(nArg.s), ","))
      => LET parts == split(strip(nArg.s), ",")
         IN  nRet1 = PyList([i \in 1..Len(parts) |-> C4_PartAsClaimed(strip(parts[i]))])

-----------------------------------------------------------------------------
(* Claims about _compose_cfg and _build_cli_kwargs, checked under           *)
(* SpecConfig.                                                             *)

UiOverrides == OrEmpty(params_from_ui)

RawKeys == {RawItems[i][1] : i \in 1..Len(RawItems)}

Namespaced(k) == PyStr("radiomics_" \o k.s)

\* C1: the merged mapping obeys user overrides > raw file overrides > namespaced
\* defaults: a key of the UI overrides has the UI value; a key absent from the UI
\* overrides but present as a top-level radiomics_* file key has the file value;
\* otherwise "radiomics_" + k has the RDEF value.
C1_Precedence ==
    cPc \in {"composed", "built"} =>
      /\ \A k \in KeySet(UiOverrides) :
           HasKey(cfg, k) /\ Lookup(cfg, k) = Lookup(UiOverrides, k)
      /\ \A k \in RawKeys \ KeySet(UiOverrides) :
           HasKey(cfg, k) /\ Lookup(cfg, k) = Lookup(CFG_FILE, k)
      /\ \A r \in KeySet(RDEF) :
           Namespaced(r) \notin (RawKeys \cup KeySet(UiOverrides)) =>
             HasKey(cfg, Namespaced(r)) /\ Lookup(cfg, Namespaced(r)) = Lookup(RDEF, r)

\* C1 witness: a merge where a UI override met a different raw file value for the
\* same key and won
C1_Witness ==
    /\ cPc = "composed"
    /\ \E k \in KeySet(UiOverrides) \cap RawKeys :
         /\ Lookup(CFG_FILE, k) # Lookup(UiOverrides, k)
         /\ Lookup(cfg, k) = Lookup(UiOverrides, k)

\* a CLI_MAP entry translated a set value of cfg onto dst
TranslatedOnto(dst) ==
    \E i \in 1..Len(CLI_MAP.d) :
        /\ CLI_MAP.d[i][2] = PyStr(dst)
        /\ HasKey(cfg, CLI_MAP.d[i][1])
        /\ Lookup(cfg, CLI_MAP.d[i][1]) \notin {PyNone, PyStr("")}

\* C5: the result always contains "extraction_mode": the string form of
\* cfg["radiomics_extraction_mode"] when that key is present, the literal
\* "handcrafted_feature" when it is absent, whatever CLI_MAP translated onto it.
C5_ExtractionModeForced ==
    cPc = "built" =>
      /\ HasKey(cli, PyStr("extraction_mode"))
      /\ Lookup(cli, PyStr("extraction_mode")) =
           (IF HasKey(cfg, PyStr("radiomics_extraction_mode"))
            THEN PyStr(Str(Lookup(cfg, PyStr("radiomics_extraction_mode"))))
            ELSE PyStr("handcrafted_feature"))

\* C5 witness: CLI_MAP translated another value onto "extraction_mode" before it was
\* force-set
C5_Witness ==
    /\ cPc = "built"
    /\ \E i \in 1..Len(CLI_MAP.d) :
         /\ CLI_MAP.d[i][2] = PyStr("extraction_mode")
         /\ HasKey(cfg, CLI_MAP.d[i][1])
         /\ Lookup(cfg, CLI_MAP.d[i][1]) \notin {PyNone, PyStr("")}
         /\ PyStr(Str(Lookup(cfg, CLI_MAP.d[i][1]))) # Lookup(cli, PyStr("extraction_mode"))

\* the setting k is missing, None or blank
Blank(k) ==
    LET v == DictGet(cfg, PyStr(k), PyNone)
    IN  v = PyNone \/ strip(Str(v)) = ""

\* the setting k is missing, None, blank or the token "none" in any case
BlankOrNone(k) ==
    LET v == DictGet(cfg, PyStr(k), PyNone)
    IN  v = PyNone \/ lower(strip(Str(v))) \in {"", "none"}

\* C6 as claimed: if the model name (resp. report level) is missing, None, blank or
\* the token "none", the key "deep_learning_model" (resp. "report") is absent from
\* the keyword arguments, for every cfg and CLI_MAP.
C6_AbsentWhenBlankOrNone ==
    cPc = "built" =>
      /\ BlankOrNone("radiomics_deep_learning_model")
           => ~HasKey(cli, PyStr("deep_learning_model"))
      /\ BlankOrNone("radiomics_report") => ~HasKey(cli, PyStr("report"))

\* C6 as amended: "deep_learning_model" is absent when the model name is missing,
\* None, blank or "none" and no CLI_MAP entry translated a set value onto it;
\* "report" is absent when the report level is missing, None or blank and no CLI_MAP
\* entry translated a set value onto it; any other report level, the token "none"
\* included, is passed on as its string form.
C6_AbsentUnlessSetOrTranslated ==
    cPc = "built" =>
      /\ (BlankOrNone("radiomics_deep_learning_model") /\ ~TranslatedOnto("deep_learning_model"))
           => ~HasKey(cli, PyStr("deep_learning_model"))
      /\ (Blank("radiomics_report") /\ ~TranslatedOnto("report"))
           => ~HasKey(cli, PyStr("report"))
      /\ ~Blank("radiomics_report")
           => /\ HasKey(cli, PyStr("report"))
              /\ Lookup(cli, PyStr("report")) = PyStr(Str(Lookup(cfg, PyStr("radiomics_report"))))

\* C6 witness: a report level of "none" was passed on, and a blank model name was not
C6_Witness ==
    /\ cPc = "built"
    /\ HasKey(cfg, PyStr("radiomics_report"))
    /\ BlankOrNone("radiomics_report") /\ ~Blank("radiomics_report")
    /\ HasKey(cli, PyStr("report"))
    /\ ~TranslatedOnto("report")

-----------------------------------------------------------------------------
(* Claims about feature_rows_from_result, checked under SpecRows.          *)

\* the payload under 'features_extracted', None when there is none
Payload == IF result.t = "dict" THEN DictGet(result, FeaturesKey, PyNone) ELSE PyNone

Normalized == rPc = "normalized"

RowSet == {rows[i] : i \in 1..Len(rows)}

\* the name is one the metadata filter drops
Denied(name) == lower(strip(name)) \in drop

\* the pairs the copy at hand returns: the PySERA copy without the denied names
Kept(pairs) ==
    IF variant = "PySERA" THEN SelectSeq(pairs, LAMBDA p : ~Denied(p[1])) ELSE pairs

AllKeys(type) == \A k \in KeySet(Payload) : k.t = type

\* C7 (as stated): a mapping payload gives one (str(key), value) row per key, the rows
\* in case-sensitive lexical order of the string form of the keys, whatever the
\* types of the keys.
C7_SortedByKeyText ==
    (Normalized /\ Payload.t = "dict") =>
        /\ Len(rows) = Len(Payload.d)
        /\ RowSet = {<<Str(k), Lookup(Payload, k)>> : k \in KeySet(Payload)}
        /\ \A i, j \in 1..Len(rows) : i < j => ~StrLess(rows[j][1], rows[i][1])

\* C7 (amended): the keys are sorted as they are. A mapping with string keys gives
\* one (key, value) row per key in case-sensitive lexical order of the keys, a
\* mapping with integer keys one row per key in numeric order of the keys; the PySERA
\* copy leaves out the keys whose stripped, lower-cased text is in the deny-list.
C7_SortedKeys ==
    (Normalized /\ Payload.t = "dict" /\ (AllKeys("str") \/ AllKeys("int"))) =>
        LET kept == {k \in KeySet(Payload) : ~(variant = "PySERA" /\ Denied(Str(k)))}
        IN  /\ Len(rows) = Cardinality(kept)
            /\ RowSet = {<<Str(k), Lookup(Payload, k)>> : k \in kept}
            /\ \A i, j \in 1..Len(rows) : i < j =>
                 \E a, b \in kept : /\ Str(a) = rows[i][1] /\ Str(b) = rows[j][1]
                                    /\ IF a.t = "str" THEN StrLess(a.s, b.s) ELSE a.i < b.i

\* a mapping of two string keys, inserted in descending order, has come out ascending
C7_Witness ==
    /\ Normalized /\ Payload.t = "dict" /\ AllKeys("str")
    /\ Len(Payload.d) = 2
    /\ StrLess(Payload.d[2][1].s, Payload.d[1][1].s)
    /\ Len(rows) = 2 /\ rows[1][1] = Payload.d[2][1].s

PairLike(item) == item.t \in {"list", "tuple"} /\ Len(item.l) >= 2

PairItems == SelectSeq(Payload.l, PairLike)

\* (str(item[0]), item[1]) for the pair-like items, in list order
PairRows == [i \in 1..Len(PairItems) |-> <<Str(PairItems[i].l[1]), PairItems[i].l[2]>>]

\* a list none of whose items is a mapping: only its pair-like items give rows
ListOfSequences ==
    Payload.t = "list" /\ \A i \in 1..Len(Payload.l) : Payload.l[i].t # "dict"

\* exactly two sequences of one length, not empty
TwoAlignedLists ==
    /\ Payload.t = "list" /\ Len(Payload.l) = 2
    /\ \A i \in 1..2 : Payload.l[i].t \in {"list", "tuple"}
    /\ Len(Payload.l[1].l) = Len(Payload.l[2].l) /\ Len(Payload.l[1].l) >= 1

\* C8 (as stated): in a list payload every pair-like item of length >= 2 gives exactly
\* the row (str(item[0]), item[1]), in list order, whatever the length of the list.
C8_PairsInListOrder == (Normalized /\ ListOfSequences) => rows = PairRows

\* C8 (amended): the same, unless the list is exactly two sequences of one length,
\* not empty, which is transposed instead; and the PySERA copy leaves out the rows
\* whose name is in the deny-list.
C8_PairsUnlessTransposed ==
    (Normalized /\ ListOfSequences /\ ~TwoAlignedLists) => rows = Kept(PairRows)

\* a list of three pair-like items, one of them longer than a pair, gave three rows
C8_Witness ==
    /\ Normalized /\ ListOfSequences /\ Len(Payload.l) = 3
    /\ \A i \in 1..3 : PairLike(Payload.l[i])
    /\ \E i \in 1..3 : Len(Payload.l[i].l) = 3
    /\ Len(rows) = 3 /\ rows = PairRows

Names == Payload.l[1].l
Values == Payload.l[2].l

\* C9 (as stated): a list of exactly two equal-length, non-empty sub-lists gives
\* (str(names[i]), values[i]) for every i, in order.
C9_Transposed ==
    (Normalized /\ TwoAlignedLists) =>
        rows = [i \in 1..Len(Names) |-> <<Str(Names[i]), Values[i]>>]

\* C9 (amended): it gives these rows in order, the PySERA copy without the ones whose
\* stripped, lower-cased name is in the deny-list.
C9_TransposedKept ==
    (Normalized /\ TwoAlignedLists) =>
        rows = Kept([i \in 1..Len(Names) |-> <<Str(Names[i]), Values[i]>>])

\* [["f1", "f2"], [10, 20]] has given [("f1", 10), ("f2", 20)]
C9_Witness ==
    /\ Normalized /\ TwoAlignedLists
    /\ Names = <<PyStr("f1"), PyStr("f2")>>
    /\ rows = << <<"f1", PyInt(10)>>, <<"f2", PyInt(20)>> >>

-----------------------------------------------------------------------------
(* Claims about onCompute, checked under Spec.                             *)

\* a step of onCompute in which the batch call returned
CallReturned == calls' = calls + 1 /\ result' # CallRaised

\* the step starts a CSV poll: the budget is set and one more timer is pending
PollStarted ==
    calls' \notin timers /\ timers' = timers \cup {calls'} /\ _csvPollRemaining' = PollTries

\* a payload that is none of table-like, mapping, list or JSON-mapping string
Unexpected(fx) ==
    /\ fx # PyNone
    /\ fx.t \notin {"table", "dict", "list"}
    /\ ~(fx.t = "str" /\ JsonLoads(strip(fx.s)).t = "dict")

-----------------------------------------------------------------------------
(* Claims about the fallbacks of feature_rows_from_result, checked under   *)
(* SpecRows.                                                               *)

\* the result is a mapping with a 'features_extracted' entry
HasPayload == result.t = "dict" /\ HasKey(result, FeaturesKey)

\* the present value is none of table-like, mapping, list or string
NoKnownShape == HasPayload /\ Lookup(result, FeaturesKey).t \notin {"table", "dict", "list", "str"}

StringifiedRow == << <<"features_extracted", PyStr(Str(Lookup(result, FeaturesKey)))>> >>

\* C11 (as stated): no rows when the result is no mapping or has no
\* 'features_extracted' entry; one "features_extracted" row holding the stringified
\* value for every present value of no known shape, a present None included.
C11_NoneIsStringified ==
    Normalized =>
        /\ ~HasPayload => rows = <<>>
        /\ NoKnownShape => rows = StringifiedRow

\* C11 (amended): no rows when the result is no mapping, has no 'features_extracted'
\* entry, or has one that is None; one "features_extracted" row holding the
\* stringified value for every other present value of no known shape.
C11_NoneGivesNoRows ==
    Normalized =>
        /\ (~HasPayload \/ Payload = PyNone) => rows = <<>>
        /\ (NoKnownShape /\ Payload # PyNone) => rows = StringifiedRow

\* a result whose 'features_extracted' entry is present and None has given no rows
C11_Witness ==
    /\ Normalized /\ HasPayload /\ Lookup(result, FeaturesKey) = PyNone
    /\ rows = <<>>

-----------------------------------------------------------------------------
(* Claims about the CSV reader                                             *)

\* the reader has returned after a wait that found the file readable
Loaded == lPc = "loaded" /\ csvOk = PyBool(TRUE)

\* the rows of the file
FileRows == CsvRows(csvText)

\* the header cells paired with the cells of the second row
Aligned(rs) == [i \in 1..Len(rs[1]) |-> <<rs[1][i], PyStr(rs[2][i])>>]

\* the second row has as many columns as a header that is not a long-format header
SecondRowAligned ==
    /\ Len(FileRows) >= 2
    /\ Len(FileRows[2]) = Len(FileRows[1])
    /\ ~IsLong(FileRows[1])

\* C14 as stated: whenever the second row has the header's column count and the
\* header is not a long-format header, the reader returns the aligned
\* (header[i], row2[i]) pairs, for every column count, a single column included.
C14_WideAnyColumnCount ==
    (Loaded /\ SecondRowAligned) => lRet = [raised |-> FALSE, rows |-> Aligned(FileRows)]

\* C14: whenever the second row has the header's column count, the header is not a
\* long-format header and there are two columns or more, the reader returns the
\* aligned (header[i], row2[i]) pairs and ignores the later rows; with a single
\* column the file is not wide, and the second row comes back as a pseudo-row
\* with an empty value.
C14_WideTwoOrMoreColumns ==
    (Loaded /\ SecondRowAligned) =>
        /\ ~lRet.raised
        /\ Len(FileRows[1]) >= 2 => lRet.rows = Aligned(FileRows)
        /\ Len(FileRows[1]) = 1 =>
               /\ Len(lRet.rows) >= 1
               /\ lRet.rows[1] = <<FileRows[2][1], PyStr("")>>

\* the file "f1,f2" / "1,2" has been read as the two aligned pairs
C14_Witness ==
    /\ Loaded
    /\ csvText = "f1,f2\n1,2\n"
    /\ lRet.rows = << <<"f1", PyStr("1")>>, <<"f2", PyStr("2")>> >>

\* the first two header labels, read without case and surrounding blanks, are a
\* name label and a value label
NameValueHeader(header) ==
    /\ Len(header) >= 2
    /\ \E name \in {"feature", "name"} : lower(strip(header[1])) = name
    /\ \E value \in {"value", "val"} : lower(strip(header[2])) = value

\* the first two cells of every row that has them, in the order of the rows
FirstTwoCells(rs) ==
    LET full == SelectSeq(rs, LAMBDA r : Len(r) >= 2)
    IN  [i \in 1..Len(full) |-> <<full[i][1], PyStr(full[i][2])>>]

\* C15: whenever the first two header labels match a name label and a value label
\* without regard to case, the reader returns the rows after the header as
\* (row[0], row[1]) pairs in file order (a row with fewer than two cells has no
\* such pair and gives none), also when the second row has the header's column
\* count: the long format is tested before the wide format.
C15_LongFormat ==
    (Loaded /\ Len(FileRows) >= 1 /\ NameValueHeader(FileRows[1])) =>
        lRet = [raised |-> FALSE, rows |-> FirstTwoCells(Tail(FileRows))]

\* a file with a mixed-case name/value header and a second row of the same column
\* count has been read as long format
C15_Witness ==
    /\ Loaded
    /\ csvText = " name , VAL \nEnergy,123.4\n"
    /\ Len(FileRows[2]) = Len(FileRows[1])
    /\ lRet.rows = << <<"Energy", PyStr("123.4")>> >>

\* the file is read neither as long format nor as wide format
NeitherFormat ==
    /\ Len(FileRows) >= 1
    /\ ~NameValueHeader(FileRows[1])
    /\ ~(Len(FileRows) >= 2 /\ Len(FileRows[2]) = Len(FileRows[1]) /\ Len(FileRows[1]) >= 2)

\* one pseudo-row (comma-joined cells, empty value) for every non-empty row of rs
Pseudo(rs) ==
    LET filled == SelectSeq(rs, LAMBDA r : r # <<>>)
    IN  [i \in 1..Len(filled) |-> <<join(",", filled[i]), PyStr("")>>]

\* C16 as stated: for a file that is neither long nor wide, the reader returns one
\* pseudo-row for each non-empty row of the file, so as many rows as the file has
\* non-empty rows.
C16_EveryNonEmptyRow ==
    (Loaded /\ NeitherFormat) => lRet = [raised |-> FALSE, rows |-> Pseudo(FileRows)]

\* C16: for a file that is neither long nor wide, the reader returns one pseudo-row
\* (comma-joined cells, empty value) for each non-empty row after the first row,
\* in file order, so as many rows as the file has non-empty rows after the first;
\* the first row is never returned.
C16_NonEmptyRowsAfterFirst ==
    (Loaded /\ NeitherFormat) =>
        /\ lRet = [raised |-> FALSE, rows |-> Pseudo(Tail(FileRows))]
        /\ Len(lRet.rows) = Cardinality({i \in 2..Len(FileRows) : FileRows[i] # <<>>})

\* a file of a one-column first row, an empty row and a three-column row has been
\* read as the single pseudo-row of its last row
C16_Witness ==
    /\ Loaded
    /\ csvText = "f1\n\n1,2,3\n"
    /\ NeitherFormat
    /\ lRet.rows = << <<"1,2,3", PyStr("")>> >>

-----------------------------------------------------------------------------
(* Claims about the CSV poll of the widget, checked under Spec.            *)

\* C17 as stated: the poll is cooperative: every tick makes exactly one readiness
\* check of the output file and never sleeps inside the UI thread.
C17_OneCheckPerTick ==
    lastTick # Idle => (lastTick.checks = 1 /\ lastTick.sleeps = 0)

\* the step is a _tick of the poll
Ticked(poll) == ticks'[poll] = ticks[poll] + 1

\* the poll has had no other poll in flight beside it
Solitary(poll) == poll \notin overlapped

\* what a _tick of a solitary poll does
C18_Tick(poll) ==
    (Ticked(poll) /\ Solitary(poll)) =>
        /\ ticks'[poll] <= PollTries
        /\ IF ~lastTick'.raised /\ lastTick'.rows # <<>>
           THEN /\ featureTable' = FilledFeatureTable(lastTick'.rows, variant)
                /\ statusLabel'.color = "green"
                /\ poll \notin timers'
           ELSE IF ticks'[poll] < PollTries
           THEN /\ poll \in timers'
                /\ UNCHANGED <<featureTable, statusLabel>>
           ELSE /\ featureTable' = FilledFeatureTable(ErrorRows, variant)
                /\ statusLabel'.color = "red"
                /\ poll \notin timers'

\* C18: a poll with no other poll in flight calls the reader at most PollTries
\* times, once per tick, and always ends: its first tick that reads a non-empty row
\* list shows the rows with a green status and starts no further timer; a tick
\* whose read is empty or raises leaves the table and status alone and starts the
\* timer again, until the PollTries-th such tick shows the error row with a red
\* status and starts none. A read that raises is handled like an empty read.
C18_PollTerminates ==
    /\ [][\A poll \in 1..MaxRuns : C18_Tick(poll)]_vars
    /\ \A poll \in 1..MaxRuns :
         (poll \in timers /\ Solitary(poll)) ~> (poll \notin timers \/ ~Solitary(poll))

\* the only poll so far has ended in the error state after PollTries ticks without
\* rows, the last of which had its reader raise
C18_Witness ==
    /\ calls = 1 /\ overlapped = {} /\ timers = {}
    /\ ticks[1] = PollTries
    /\ lastTick # Idle /\ lastTick.raised
    /\ featureTable = FilledFeatureTable(ErrorRows, variant)
    /\ statusLabel.color = "red"

\* C19 as stated: polls share no state: when a run starts its poll while the poll of
\* an earlier run still has a timer pending, each poll keeps its own retry budget,
\* so no poll runs its tick more than PollTries times.
C19_OwnBudget == \A poll \in 1..MaxRuns : ticks[poll] <= PollTries

\* the step is a run of onCompute that reached the external batch call
Ran == calls' = calls + 1

\* C20: a poll is started only by a run of onCompute whose external call returned
\* without raising and whose normalizer gave no rows, and the reader runs only in the
\* ticks of a started poll: the output file of a run whose normalizer gave at least
\* one row, or whose call raised, is never read. In the PySERA copy every run whose
\* call returned and whose normalizer gave no rows does start the poll; the
\* PySera_Ext copy never reaches its normalizer and starts no poll.
C20_PollOnlyWithoutRows ==
    [][/\ \A poll \in 1..MaxRuns :
            /\ poll \in timers' \ timers =>
                 (Ran /\ poll = calls' /\ result' # CallRaised /\ rows' = <<>>)
            /\ Ticked(poll) => poll \in timers
       /\ Ran => IF variant = "PySERA"
                 THEN (result' # CallRaised /\ rows' = <<>>) => calls' \in timers'
                 ELSE calls' \notin timers']_vars

\* the second run returned a row and started no poll, after a first run whose poll
\* read the output file of that first run
C20_Witness ==
    /\ variant = "PySERA"
    /\ calls = 2
    /\ rows # <<>>
    /\ ticks[1] > 0
    /\ ticks[2] = 0
    /\ 2 \notin timers

-----------------------------------------------------------------------------
(* Claim about the key set of the merged configuration, checked under      *)
(* SpecConfig.                                                             *)

\* C25: the merged mapping drops no key: its keys are exactly the "radiomics_" + k
\* for the keys k of RDEF, the top-level keys of the parameters file that start with
\* "radiomics_", and the keys of the UI overrides; a UI key that is neither of the
\* former passes through with its value.
C25_NoKeyDropped ==
    cPc \in {"composed", "built"} =>
      /\ KeySet(cfg) = {Namespaced(r) : r \in KeySet(RDEF)} \cup RawKeys \cup KeySet(UiOverrides)
      /\ \A k \in KeySet(UiOverrides) \ ({Namespaced(r) : r \in KeySet(RDEF)} \cup RawKeys) :
           Lookup(cfg, k) = Lookup(UiOverrides, k)

\* a merge of a default with a UI override under a key no layer below knows
C25_Witness ==
    /\ cPc = "composed"
    /\ KeySet(RDEF) # {}
    /\ HasKey(UiOverrides, PyStr("custom_key"))
    /\ HasKey(cfg, PyStr("custom_key"))
    /\ Cardinality(KeySet(cfg)) = 2
-----------------------------------------------------------------------------
(* The selection panels: the category and dimension checkboxes, the        *)
(* handler that syncs the categories to the dimensions, the Select All and *)
(* Clear All buttons, and the selection strings onCompute builds from the  *)
(* boxes.                                                                  *)

\* category boxes the user clicks in one behaviour
MaxToggles == 2

DIM_OPTIONS(vr) ==
    IF vr = "PySERA"
    THEN <<"1st", "2D", "2_5D", "3D">>
    ELSE <<"all", "1st", "2D", "2_5D", "3D">>

CAT_OPTIONS(vr) ==
    IF vr = "PySERA"
    THEN <<"DIAG", "MORPH", "IP", "STAT", "IH", "IVH", "GLCM", "GLRLM", "GLSZM", "GLDZM",
           "NGTDM", "NGLDM", "MI">>
    ELSE <<"diag", "morph", "ip", "stat", "ih", "ivh", "glcm", "glrlm", "glszm", "gldzm",
           "ngtdm", "ngldm", "mi">>

FirstOrderCats(vr) == SubSeq(CAT_OPTIONS(vr), 2, 6)
TextureCats(vr) == SubSeq(CAT_OPTIONS(vr), 7, 12)

\* the dict DIM_TO_CATS, as a function of its keys
DIM_TO_CATS(vr) ==
    [k \in {"1st", "2d", "2_5d", "3d"} |->
        IF k = "1st" THEN FirstOrderCats(vr) ELSE TextureCats(vr)]

\* the keys of _categoryByName and _dimensionByName, in panel order
CategoryNames == [vr \in Variants |-> [i \in DOMAIN CAT_OPTIONS(vr) |-> lower(strip(CAT_OPTIONS(vr)[i]))]]
DimensionNames == [vr \in Variants |-> [i \in DOMAIN DIM_OPTIONS(vr) |-> lower(strip(DIM_OPTIONS(vr)[i]))]]

\* the lower-cased categories dim_to_cats.get(d_key, []) adds to wanted for dimension d
CatsOfDim ==
    [vr \in Variants |->
        [d \in {DimensionNames[vr][i] : i \in DOMAIN DimensionNames[vr]} |->
            LET d_key == IF d \in {"2_5d", "2.5d"} THEN "2_5d" ELSE d
                cats == IF d_key \in DOMAIN DIM_TO_CATS(vr) THEN DIM_TO_CATS(vr)[d_key] ELSE <<>>
            IN  {lower(cats[i]) : i \in DOMAIN cats}]]

AllBoxes(checks, b) == [i \in DOMAIN checks |-> b]

\* the boxes _build_check_grid_panel checks for a default string
DefaultChecks(options, default_str) ==
    LET default_all == lower(strip(default_str)) = "all"
        parts == split(default_str, ",")
        wanted == {lower(strip(parts[i])) : i \in {j \in DOMAIN parts : strip(parts[j]) # ""}}
    IN  [i \in DOMAIN options |-> IF default_all THEN TRUE ELSE lower(options[i]) \in wanted]

\* the guard of _on_dimension_changed (the PySera_Ext copy has none)
Guarded_Never(vr, ignore) == FALSE

Guarded(vr, ignore) == vr = "PySERA" /\ ignore

\* _on_dimension_changed on the panel p = [dims, cats, ignore, ran]
_on_dimension_changed(p, vr) ==
    IF Guarded(vr, p.ignore)
    THEN p
    ELSE
      LET checked_dims == {DimensionNames[vr][i] : i \in {j \in DOMAIN p.dims : p.dims[j]}}
          wanted == UNION {CatsOfDim[vr][d] : d \in checked_dims}
      IN  IF "all" \in checked_dims
          THEN [p EXCEPT !.dims = AllBoxes(p.dims, TRUE), !.cats = AllBoxes(p.cats, TRUE),
                         !.ran = TRUE]
          ELSE IF checked_dims = {}
          THEN [p EXCEPT !.cats = AllBoxes(p.cats, FALSE), !.ran = TRUE]
          ELSE [p EXCEPT !.cats = [i \in DOMAIN p.cats |-> CategoryNames[vr][i] \in wanted],
                         !.ran = TRUE]

\* cb.setChecked(b) on dimension box i: a change of state emits toggled, which runs
\* the handler before setChecked returns
SetDimension(p, i, b, vr) ==
    IF p.dims[i] = b THEN p ELSE _on_dimension_changed([p EXCEPT !.dims[i] = b], vr)

\* for cb in self.dimensionChecks: cb.setChecked(b), from box i on
RECURSIVE SetDimensions(_, _, _, _)
SetDimensions(p, i, b, vr) ==
    IF i > Len(p.dims) THEN p ELSE SetDimensions(SetDimension(p, i, b, vr), i + 1, b, vr)

\* for cb in self.categoryChecks: cb.setChecked(b); no handler listens to these boxes
SetCategories(p, b) == [p EXCEPT !.cats = AllBoxes(p.cats, b)]

Panel(ignore) ==
    [dims |-> dimensionChecks, cats |-> categoryChecks, ignore |-> ignore, ran |-> FALSE]

_global_select_all == SetCategories(SetDimensions(Panel(TRUE), 1, TRUE, variant), TRUE)

_global_clear_all == SetDimensions(SetCategories(Panel(TRUE), FALSE), 1, FALSE, variant)

\* [self._wtext(cb) for cb in checks if cb.isChecked()]
RECURSIVE SelectedLabels(_, _)
SelectedLabels(checks, labels) ==
    IF checks = <<>>
    THEN <<>>
    ELSE (IF Head(checks) THEN <<Head(labels)>> ELSE <<>>)
         \o SelectedLabels(Tail(checks), Tail(labels))

SelectionString_Joined(checks, labels) == join(",", SelectedLabels(checks, labels))

\* the string onCompute puts in params["radiomics_categories"] / ["radiomics_dimensions"]
SelectionString(checks, labels) ==
    LET total == Len(checks)
        selected == SelectedLabels(checks, labels)
    IN  IF selected = <<>> \/ (total # 0 /\ Len(selected) = total)
        THEN "all"
        ELSE join(",", selected)

CategoryDefaults == {"all", "glcm, MI"}
DimensionDefaults(vr) == IF vr = "PySERA" THEN {"None", "all", "1st,3D"} ELSE {"all", "1st,3D"}

InitPanel ==
    /\ variant \in Variants
    /\ \E cats_default \in CategoryDefaults :
         categoryChecks = DefaultChecks(CAT_OPTIONS(variant), cats_default)
    /\ \E dims_default \in DimensionDefaults(variant) :
         dimensionChecks = DefaultChecks(DIM_OPTIONS(variant), dims_default)
    /\ _ignoreDimSync = FALSE
    /\ handled = FALSE
    /\ toggles = 0
    /\ selection = Idle
    /\ pPc = "built"
    /\ NormalizeIdle /\ ConfigIdle /\ RowsIdle /\ WidgetIdle /\ FilterIdle /\ WaitIdle
    /\ CsvIdle

PanelBecomes(p) ==
    /\ dimensionChecks' = p.dims
    /\ categoryChecks' = p.cats
    /\ handled' = p.ran
    /\ selection' = Idle
    /\ UNCHANGED <<variant, normVars, cfgVars, rowVars, widgetVars, filterVars, waitVars,
                   csvVars>>

\* qt.QTimer.singleShot(0, lambda: self._on_dimension_changed(DIM_TO_CATS))
InitialSync ==
    /\ pPc = "built"
    /\ pPc' = "sync"
    /\ PanelBecomes(_on_dimension_changed(Panel(_ignoreDimSync), variant))
    /\ UNCHANGED <<_ignoreDimSync, toggles>>

\* the user clicks dimension box i
ToggleDimension(i) ==
    /\ pPc # "built"
    /\ PanelBecomes(SetDimension(Panel(_ignoreDimSync), i, ~dimensionChecks[i], variant))
    /\ UNCHANGED <<_ignoreDimSync, toggles>>
    /\ pPc' = "dimension"

\* the user clicks category box i
ToggleCategory(i) ==
    /\ pPc # "built"
    /\ toggles < MaxToggles
    /\ toggles' = toggles + 1
    /\ PanelBecomes([Panel(_ignoreDimSync) EXCEPT !.cats[i] = ~categoryChecks[i]])
    /\ UNCHANGED _ignoreDimSync
    /\ pPc' = "category"

\* Select All: the global button of PySERA
SelectAll ==
    /\ pPc # "built"
    /\ variant = "PySERA"
    /\ PanelBecomes(_global_select_all)
    /\ _ignoreDimSync' = FALSE
    /\ UNCHANGED toggles
    /\ pPc' = "select_all"

\* Clear All: the global button of PySERA
ClearAll ==
    /\ pPc # "built"
    /\ variant = "PySERA"
    /\ PanelBecomes(_global_clear_all)
    /\ _ignoreDimSync' = FALSE
    /\ UNCHANGED toggles
    /\ pPc' = "clear_all"

\* "Select all" / "Clear all" of the dimensions panel of PySera_Ext
DimensionsPanelButton(b) ==
    /\ pPc # "built"
    /\ variant = "PySera_Ext"
    /\ PanelBecomes(SetDimensions(Panel(_ignoreDimSync), 1, b, variant))
    /\ UNCHANGED <<_ignoreDimSync, toggles>>
    /\ pPc' = "panel_button"

\* "Select all" / "Clear all" of the categories panel of PySera_Ext
CategoriesPanelButton(b) ==
    /\ pPc # "built"
    /\ variant = "PySera_Ext"
    /\ PanelBecomes(SetCategories(Panel(_ignoreDimSync), b))
    /\ UNCHANGED <<_ignoreDimSync, toggles>>
    /\ pPc' = "panel_button"

\* onCompute, as far as the two selection strings
ReadSelection ==
    /\ pPc # "built"
    /\ selection' =
         [categories |-> SelectionString(categoryChecks, CAT_OPTIONS(variant)),
          dimensions |-> SelectionString(dimensionChecks, DIM_OPTIONS(variant))]
    /\ handled' = FALSE
    /\ UNCHANGED <<variant, normVars, cfgVars, rowVars, widgetVars, filterVars, waitVars,
                   csvVars, dimensionChecks, categoryChecks, _ignoreDimSync, toggles>>
    /\ pPc' = "compute"

NextPanel ==
    \/ InitialSync
    \/ \E i \in DOMAIN dimensionChecks : ToggleDimension(i)
    \/ \E i \in DOMAIN categoryChecks : ToggleCategory(i)
    \/ SelectAll
    \/ ClearAll
    \/ \E b \in BOOLEAN : DimensionsPanelButton(b)
    \/ \E b \in BOOLEAN : CategoriesPanelButton(b)
    \/ ReadSelection

SpecPanel == InitPanel /\ [][NextPanel]_vars
-----------------------------------------------------------------------------
(* Claims about the selection panels, checked under SpecPanel.             *)

\* category box i is named in DIM_TO_CATS for some checked dimension
InUnionOfChecked(i) ==
    \E j \in DOMAIN dimensionChecks :
      /\ dimensionChecks[j]
      /\ LET cats == DIM_TO_CATS(variant)[lower(DIM_OPTIONS(variant)[j])]
         IN  \E k \in DOMAIN cats : cats[k] = CAT_OPTIONS(variant)[i]

Synced ==
    IF \A j \in DOMAIN dimensionChecks : ~dimensionChecks[j]
    THEN \A i \in DOMAIN categoryChecks : ~categoryChecks[i]
    ELSE \A i \in DOMAIN categoryChecks : categoryChecks[i] <=> InUnionOfChecked(i)

EveryBox(b) ==
    /\ \A j \in DOMAIN dimensionChecks : dimensionChecks[j] = b
    /\ \A i \in DOMAIN categoryChecks : categoryChecks[i] = b

\* C28: in PySERA, a step in which _on_dimension_changed got past its guard ends with
\* every category unchecked if no dimension is checked, and otherwise with exactly the
\* categories of DIM_TO_CATS of the checked dimensions checked; Select All and Clear
\* All end with every box checked (resp. unchecked) and the flag false, and the handler
\* never gets past its guard while they run.
C28_DimensionSync ==
    variant = "PySERA" =>
      /\ handled => Synced
      /\ pPc = "select_all" => (EveryBox(TRUE) /\ ~handled)
      /\ pPc = "clear_all" => (EveryBox(FALSE) /\ ~handled)
      /\ ~_ignoreDimSync

\* the handler has run after the user checked "1st" over a category clicked by hand
C28_Witness ==
    /\ variant = "PySERA"
    /\ handled
    /\ toggles > 0
    /\ dimensionChecks = <<TRUE, FALSE, FALSE, FALSE>>
    /\ categoryChecks[2]
    /\ ~categoryChecks[1]
    /\ ~categoryChecks[7]

\* the label of the k-th checked box, in panel order
KthChecked(checks, labels, k) ==
    labels[CHOOSE i \in DOMAIN checks :
             checks[i] /\ Cardinality({j \in 1..i : checks[j]}) = k]

Requested(str, checks, labels) ==
    LET n == Cardinality({i \in DOMAIN checks : checks[i]})
    IN  /\ str # ""
        /\ IF n = 0 \/ n = Len(checks)
           THEN str = "all"
           ELSE split(str, ",") = [k \in 1..n |-> KthChecked(checks, labels, k)]

\* C29: the categories and the dimensions string onCompute builds are never empty:
\* each is "all" when none or all of its boxes are checked, and otherwise the labels
\* of the checked boxes, in panel order, joined by commas.
C29_SelectionStrings ==
    selection # Idle =>
      /\ Requested(selection.categories, categoryChecks, CAT_OPTIONS(variant))
      /\ Requested(selection.dimensions, dimensionChecks, DIM_OPTIONS(variant))

\* a run started with every box cleared, and so asking for "all" of both
C29_Witness ==
    /\ selection # Idle
    /\ EveryBox(FALSE)
    /\ selection.categories = "all"
    /\ selection.dimensions = "all"
-----------------------------------------------------------------------------
(* Claims about the failures of one run, checked under SpecRun.            *)

\* the input of run r is missing or invalid
InvalidInput(r) ==
    IF r.is_single
    THEN r.image_path = "" \/ r.mask_path = ""
    ELSE \/ r.image_path = "" \/ ~isdir(r.image_path)
         \/ r.mask_path = "" \/ ~isdir(r.mask_path)

PollUntouched == timers' = timers /\ _csvPollRemaining' = _csvPollRemaining

\* C21: an onCompute with an empty image or mask path (single mode) or with an image
\* or mask folder that is empty or no directory (batch mode) sets the status to an
\* error and does nothing else: no import, no output directory or CSV path, no batch
\* call, no poll, and both tables as they were.
C21_InvalidInputRejected ==
    [][(lastRun' # Idle /\ InvalidInput(lastRun')) =>
         /\ statusLabel'.color = "red"
         /\ statusLabel'.text # ""
         /\ calls' = calls
         /\ ~lastRun'.called
         /\ ~lastRun'.made
         /\ lastRun'.imports = 0
         /\ PollUntouched
         /\ UNCHANGED <<featureTable, summaryTable, result, rows, loggerLevel>>]_vars

\* a batch run on a file instead of a folder is rejected after a run that showed rows
C21_Witness ==
    /\ variant = "PySERA"
    /\ lastRun # Idle
    /\ ~lastRun.is_single
    /\ lastRun.image_path = "image.nrrd"
    /\ ~lastRun.called
    /\ calls = 1
    /\ featureTable # <<>>
    /\ statusLabel = Status("Error: Select an image folder.", "red")

\* the run that has just ended called the batch call, and the call raised
CallFailed == lastRun' # Idle /\ lastRun'.called /\ result' = CallRaised

\* C22: when the batch call raises, onCompute catches the exception and shows it as
\* an error status; the call was invoked once in that onCompute, no poll is started
\* and the tables stay as they were.
C22_CallFailureShown ==
    [][CallFailed =>
         /\ statusLabel' = Status("Error: " \o CallRaised.exc, "red")
         /\ calls' = calls + 1
         /\ PollUntouched
         /\ UNCHANGED <<featureTable, summaryTable, rows>>]_vars

\* the second run fails while the poll of the first is pending
C22_Witness ==
    /\ lastRun # Idle
    /\ lastRun.called
    /\ result = CallRaised
    /\ calls = 2
    /\ timers = {1}
    /\ statusLabel.color = "red"

\* C23: the install is attempted once when the first import fails and never when it
\* succeeds; the run fails with ImportError exactly when the install or the import
\* after it fails, and then the batch call is not invoked and the status shows the
\* error.
C23_InstallOnce ==
    (lastRun # Idle /\ lastRun.env # Idle) =>
      LET env == lastRun.env
      IN  /\ env.importable => (lastRun.installs = 0 /\ lastRun.imports = 1)
          /\ ~env.importable => lastRun.installs = 1
          /\ (~env.importable /\ env.pip_ok) => lastRun.imports = 2
          /\ lastRun.raised <=> (~env.importable /\ ~(env.pip_ok /\ env.installed))
          /\ lastRun.raised =>
               /\ ~lastRun.called
               /\ statusLabel = Status("Error: " \o ImportErrorText, "red")
          /\ ~lastRun.raised => lastRun.called

\* pysera is still not importable after an install that returned
C23_Witness ==
    /\ lastRun # Idle
    /\ lastRun.env # Idle
    /\ ~lastRun.env.importable
    /\ lastRun.env.pip_ok
    /\ lastRun.raised
    /\ lastRun.installs = 1
    /\ lastRun.imports = 2
    /\ calls = 0

\* C24: a run that has ended without a pending poll leaves the logger level, the
\* budget of the poll and the guard flag of the dimension handler as it found them.
C24_RunLeavesNoState ==
    [][(lastRun' # Idle /\ lastRun'.called /\ timers' = {}) =>
         /\ loggerLevel' = loggerLevel
         /\ _csvPollRemaining' = _csvPollRemaining
         /\ _ignoreDimSync' = _ignoreDimSync]_vars
-----------------------------------------------------------------------------
(* Claims about what the feature table shows, checked under Spec.          *)

\* C26 as stated: the feature table reflects the most recent run: once a later run
\* has written its rows or its placeholder, a tick of the poll of an earlier run
\* changes neither the feature table nor the status.
C26_LatestRunShown ==
    [][\A poll \in 1..MaxRuns :
         (Ticked(poll) /\ poll < calls /\ result # CallRaised)
           => UNCHANGED <<featureTable, statusLabel>>]_vars

\* the name shown in row i of the feature table
ShownName(i) == featureTable[i][1]

\* C27 as stated: no row whose stripped, lower-cased name is in the deny-list is shown
\* in the feature table, whether the rows come from the result of the batch call or
\* from the output file.
C27_NoMetadataShown ==
    variant = "PySERA" =>
      \A i \in DOMAIN featureTable : lower(strip(ShownName(i))) \notin drop
-----------------------------------------------------------------------------
(* Claim about the tick of the PySera_Ext copy, checked under SpecExtPoll. *)

====
